---- MODULE Spec2Model ----
(***************************************************************************)
(* Model of the curl-command pipeline of Automated_Visualization:          *)
(*   src/agent/pipeline.py            the pipeline driver                  *)
(*   src/agent/agent_execute_curl.py  the request executor and its CLI     *)
(*   src/agent/agent_curl_generator.py  the synthesizer's substitutions    *)
(*   src/backend/agent/agent_dspy_v8.py  the payloads of the UI stage      *)
(*   src/backend/agent/agent_execute_curl.py  the executor as a script     *)
(*   src/extract.py                   extract_html_block                   *)
(* Strings are sequences of one-character strings.                         *)
(***************************************************************************)
EXTENDS Integers, Sequences, FiniteSets, TLC

(***************************************************************************)
(* Bounds of the model.                                                    *)
(***************************************************************************)
\* Number of task directories under problems/.
NumTasks == 2

TaskIds == 1..NumTasks
\* A task name that is no directory under problems/.
UnknownTask == 0
\* sys.argv holds no task name.
NoArg == -1

(***************************************************************************)
(* Text helpers: Python's str.strip, str.rstrip('\\'), ' '.join, and the   *)
(* iteration of a text file by lines.                                      *)
(***************************************************************************)
BS == "\\"
NL == "\n"

IsSpace(c) == c \in {" ", NL, "\t", "\r"}

RECURSIVE LStrip(_)
LStrip(s) ==
  IF s # <<>> /\ IsSpace(Head(s)) THEN LStrip(Tail(s)) ELSE s

RECURSIVE RStrip(_)
RStrip(s) ==
  IF s # <<>> /\ IsSpace(s[Len(s)]) THEN RStrip(SubSeq(s, 1, Len(s) - 1)) ELSE s

\* line.strip()
Strip(s) == RStrip(LStrip(s))

\* .rstrip('\\'): every trailing backslash goes
RECURSIVE RStripBackslash(_)
RStripBackslash(s) ==
  IF s # <<>> /\ s[Len(s)] = BS
  THEN RStripBackslash(SubSeq(s, 1, Len(s) - 1))
  ELSE s

\* `for line in file`: the lines of the text, each with its line end
RECURSIVE FileLines(_)
FileLines(s) ==
  IF s = <<>> THEN <<>>
  ELSE LET ends == {i \in 1..Len(s) : s[i] = NL}
       IN IF ends = {} THEN <<s>>
          ELSE LET k == CHOOSE i \in ends : \A j \in ends : i <= j
               IN <<SubSeq(s, 1, k)>> \o FileLines(SubSeq(s, k + 1, Len(s)))

\* ' '.join(parts)
RECURSIVE JoinSpace(_)
JoinSpace(parts) ==
  IF parts = <<>> THEN <<>>
  ELSE IF Len(parts) = 1 THEN parts[1]
  ELSE parts[1] \o <<" ">> \o JoinSpace(Tail(parts))

\* [f(line) for line in lines if line.strip()]
RECURSIVE KeptLines(_)
KeptLines(lines) ==
  IF lines = <<>> THEN <<>>
  ELSE (IF Strip(Head(lines)) # <<>>
        THEN <<RStripBackslash(Strip(Head(lines)))>>
        ELSE <<>>) \o KeptLines(Tail(lines))

\* agent_execute_curl.py line 17
NormalizeCommand(text) == JoinSpace(KeptLines(FileLines(text)))

IsEmptyCommand_Never(cmd) == FALSE

\* `if not curl_command` (line 18)
IsEmptyCommand(cmd) == cmd = <<>>

(***************************************************************************)
(* Files and HTTP responses.                                               *)
(***************************************************************************)
NoCmdFile == [exists |-> FALSE, text |-> <<>>]
CmdFileOf(t) == [exists |-> TRUE, text |-> t]

\* Command texts the generative service may hand back (after substitution).
EmptyText == <<>>
BlankText == <<" ", NL>>
CurlText == <<"c", " ", BS, NL, "d">>
CmdTexts == {EmptyText, BlankText, CurlText}

NoRespFile == [kind |-> "none", body |-> "-"]
OldRespFile == [kind |-> "old", body |-> "-"]

\* json.dumps(response.json(), indent=4, ensure_ascii=False) written to the file
PrettyJsonFile(r) == [kind |-> "pretty", body |-> r.body]
\* response.text written to the file
RawTextFile(r) == [kind |-> "raw", body |-> r.body]

\* A requests.Response: ok is status_code < 400, isJson whether .json() parses,
\* body "u" a JSON body with a lone surrogate escape, "b" any other body.
Responses ==
  {r \in [ok : BOOLEAN, isJson : BOOLEAN, body : {"b", "u"}] :
     r.body = "u" => (r.ok /\ r.isJson)}
NoResponse == [ok |-> FALSE, isJson |-> FALSE, body |-> "-"]

\* json.dumps(..., ensure_ascii=False) of a value that holds a lone surrogate
\* (the body "u", {"k": "\ud800"}) gives a string file.write cannot encode
Unencodable(r) == r.isJson /\ r.body = "u"

\* response.json after open(..., "w") and a write that raised
TruncatedFile == [kind |-> "truncated", body |-> "-"]

\* `if response:` (line 45): Response.__bool__ is Response.ok
Truthy(r) == r.ok

(***************************************************************************)
(* State of one run of a CLI entry point.                                  *)
(***************************************************************************)
VARIABLES
  entry,         \* "pipeline" (pipeline.py) or "executor" (agent_execute_curl.py)
  argv,          \* the task-name argument: a task, UnknownTask or NoArg
  task_folders,  \* os.listdir(problems_dir), directories only, in listing order
  cmdFile,       \* problems/<task>/curl_command_generated.txt
  respFile,      \* problems/<task>/response.json
  uiFile,        \* problems/<task>/<task>_ui.html was written in this run
  pc,            \* position of the run
  cur,           \* task_name of the running process_task / execute_curl_for_task
  idx,           \* position of the batch loop in task_folders
  curl_command,  \* the executor's normalized command
  response,      \* local_vars.get("response")
  exitCode,      \* the process exit code, NoExit while running
  summary,       \* the pass/fail summary printed by the batch run
  started,       \* history: <<task, stage>> in the order the stages started
  succeeded,     \* history: the <<task, stage>> that succeeded
  results,       \* history: <<task, value>> of every process_task return
  call,          \* history of the running/last execute_curl_for_task call
  runBefore,     \* history: the task's two files when process_task began
  cwd,           \* the working directory of the process: a task's directory or another
  cwdFiles,      \* another working directory holds the two files of some earlier run
  uiPayload,     \* history: where stage 3 took its payloads from, per task
  \* the executor run on one synthetic command against an echo server
  rtPc, rtBody, rtFile, rtCmd, rtCode, rtSent, rtResp, rtRet,
  \* the synthesizer's placeholder substitution on one service answer
  subPc, subPieces, subImg, subAud, subOut

mainVars ==
  <<entry, argv, task_folders, cmdFile, respFile, uiFile, pc, cur, idx,
    curl_command, response, exitCode, summary, started, succeeded, results,
    call, runBefore, cwd, cwdFiles, uiPayload>>

\* The process is still running.
NoExit == -1
\* sys.exit(0), or the interpreter ending normally
ExitOK == 0
\* sys.exit(1)
ExitFail == 1
\* the exit code of argparse's error(): sys.exit(2)
ExitUsage == 2
\* a working directory that is no task's directory
Elsewhere == -2

rtVars == <<rtPc, rtBody, rtFile, rtCmd, rtCode, rtSent, rtResp, rtRet>>

subVars == <<subPc, subPieces, subImg, subAud, subOut>>

\* generate_curl_for_task seen alone
VARIABLES
  genPc,       \* position in generate_curl_for_task
  genConfig,   \* problems/<task>/task.yaml
  genOutFile,  \* problems/<task>/curl_command_generated.txt
  genTried,    \* the decodings safe_read_file has tried
  genText,     \* task_yaml_content
  genInfo,     \* json.dumps(model_info), as passed to the service
  genCalls,    \* calls of the generative service
  genAnswer,   \* result.curl_command
  genCmd,      \* curl_command
  genRet,      \* the value returned to the caller
  genErr       \* the exception that left generate_curl_for_task

genVars ==
  <<genPc, genConfig, genOutFile, genTried, genText, genInfo, genCalls,
    genAnswer, genCmd, genRet, genErr>>

\* lines 14-20 of execute_curl_for_task on any text of the command file
VARIABLES
  nzPc,       \* position: "read", "check", "done"
  nzText,     \* the content of curl_command_generated.txt
  nzCmd,      \* curl_command
  nzVerdict   \* "empty" (return False at line 20) or "parse" (line 27)

nzVars == <<nzPc, nzText, nzCmd, nzVerdict>>

NzIdle ==
  /\ nzPc = "idle"
  /\ nzText = <<>>
  /\ nzCmd = <<>>
  /\ nzVerdict = "none"

\* extract_html_block of extract.py
VARIABLES
  exPc,      \* position: "loop", "after", "done"
  exInput,   \* lines, as infile.readlines() gives them
  exPos,     \* the lines the loop has taken
  exIn,      \* in_html_block
  exHtml,    \* html_lines
  exOut,     \* the file at output_path
  exBefore   \* the file at output_path before the call

exVars == <<exPc, exInput, exPos, exIn, exHtml, exOut, exBefore>>

NoHtmlFile == [exists |-> FALSE, lines |-> <<>>]

ExIdle ==
  /\ exPc = "idle"
  /\ exInput = <<>>
  /\ exPos = 0
  /\ exIn = FALSE
  /\ exHtml = <<>>
  /\ exOut = NoHtmlFile
  /\ exBefore = NoHtmlFile

\* stages 1 and 2 of process_task run again and again for one task
VARIABLES
  rrPc,        \* position: "generate", "execute", "end", "done"
  rrRun,       \* runs that have ended
  rrCmd,       \* curl_command_generated.txt
  rrResp,      \* response.json
  rrService,   \* what the generative service answers, every time
  rrParsable,  \* the commands uncurl.parse accepts
  rrServer,    \* what the target server answers, every time (NoResponse: nothing)
  rrFirst      \* the two files as the first run left them

rrVars ==
  <<rrPc, rrRun, rrCmd, rrResp, rrService, rrParsable, rrServer, rrFirst>>

\* a file as the chunks written to it
NoFile == [exists |-> FALSE, chunks |-> <<>>]

RrIdle ==
  /\ rrPc = "idle"
  /\ rrRun = 0
  /\ rrCmd = NoFile
  /\ rrResp = NoFile
  /\ rrService = <<>>
  /\ rrParsable = {}
  /\ rrServer = NoResponse
  /\ rrFirst = [cmd |-> NoFile, resp |-> NoFile]

\* the two executors on the same command file and the same server
VARIABLES
  eqCmd,      \* curl_command_generated.txt
  eqParse,    \* what uncurl.parse does with the command
  eqServer,   \* the server's response, NoResponse when the request raises
  eqBefore,   \* response.json before either executor ran
  eqTask,     \* src/agent/agent_execute_curl.py: file and exit code
  eqScript    \* src/backend/agent/agent_execute_curl.py: file and exit code

eqVars == <<eqCmd, eqParse, eqServer, eqBefore, eqTask, eqScript>>

EqIdle ==
  /\ eqCmd = [exists |-> FALSE, text |-> <<>>]
  /\ eqParse = "idle"
  /\ eqServer = [ok |-> FALSE, isJson |-> FALSE, body |-> "-"]
  /\ eqBefore = [kind |-> "none", body |-> "-"]
  /\ eqTask = [ran |-> FALSE, resp |-> [kind |-> "none", body |-> "-"], exit |-> NoExit]
  /\ eqScript = [ran |-> FALSE, resp |-> [kind |-> "none", body |-> "-"], exit |-> NoExit]

\* two pipeline processes, one per task, running at the same time
VARIABLES
  ccPc,      \* the stage each run is about to start, "done" at its end
  ccCwd,     \* the working directory of each run
  ccHas,     \* the files that exist, as <<directory, name>>
  ccReads,   \* the files each run has opened for reading
  ccWrites   \* the files each run has opened for writing

ccVars == <<ccPc, ccCwd, ccHas, ccReads, ccWrites>>

CcIdle ==
  /\ ccPc = <<>>
  /\ ccCwd = <<>>
  /\ ccHas = {}
  /\ ccReads = <<>>
  /\ ccWrites = <<>>

\* the variables of the four pipeline specifications and of the smaller ones
coreVars == <<mainVars, rtVars, subVars, genVars>>
unitVars == <<nzVars, exVars, rrVars, eqVars, ccVars>>
UnitsIdle ==
  /\ NzIdle
  /\ ExIdle
  /\ RrIdle
  /\ EqIdle
  /\ CcIdle

vars == <<coreVars, unitVars>>

\* the variables each specification leaves alone
othersOfMain == <<rtVars, subVars, genVars, unitVars>>
othersOfRt == <<mainVars, subVars, genVars, unitVars>>
othersOfSub == <<mainVars, rtVars, genVars, unitVars>>
othersOfGen == <<mainVars, rtVars, subVars, unitVars>>
othersOfNz == <<coreVars, exVars, rrVars, eqVars, ccVars>>
othersOfEx == <<coreVars, nzVars, rrVars, eqVars, ccVars>>
othersOfRr == <<coreVars, nzVars, exVars, eqVars, ccVars>>
othersOfEq == <<coreVars, nzVars, exVars, rrVars, ccVars>>
othersOfCc == <<coreVars, nzVars, exVars, rrVars, eqVars>>

\* The variables of the other specifications, at rest.
RtIdle ==
  /\ rtPc = "idle"
  /\ rtBody = <<>>
  /\ rtFile = <<>>
  /\ rtCmd = <<>>
  /\ rtCode = <<>>
  /\ rtSent = <<>>
  /\ rtResp = <<>>
  /\ rtRet = "none"

SubIdle ==
  /\ subPc = "idle"
  /\ subPieces = <<>>
  /\ subImg = <<>>
  /\ subAud = <<>>
  /\ subOut = <<>>

GenIdle ==
  /\ genPc = "idle"
  /\ genConfig = [exists |-> FALSE, lines |-> <<>>]
  /\ genOutFile = [exists |-> FALSE, text |-> <<>>]
  /\ genTried = <<>>
  /\ genText = <<>>
  /\ genInfo = "-"
  /\ genCalls = 0
  /\ genAnswer = <<>>
  /\ genCmd = <<>>
  /\ genRet = <<>>
  /\ genErr = "none"

AllNames == TaskIds \cup {UnknownTask}
NoSummary == [printed |-> FALSE, passed |-> 0, failed |-> 0]

\* The ghost record of one execute_curl_for_task call.
NoCall ==
  [active |-> FALSE, task |-> UnknownTask, cmdBefore |-> NoCmdFile,
   respBefore |-> NoRespFile, parsed |-> FALSE, http |-> 0,
   resp |-> NoResponse, ret |-> "none"]

\* the two files of a task before a run of process_task
NoRunBefore == [cmd |-> NoCmdFile, resp |-> NoRespFile]

\* the payloads of stage 3: their source and, for files, the directory
NoPayload == [src |-> "none", dir |-> Elsewhere]

\* where the process may be started: in a task's directory (the tasks are
\* alike, so the first stands for any) or in another directory
WorkingDirs == {1, Elsewhere}

MainIdle ==
  /\ entry = "none"
  /\ argv = NoArg
  /\ task_folders = <<>>
  /\ cmdFile = [n \in AllNames |-> NoCmdFile]
  /\ respFile = [n \in AllNames |-> NoRespFile]
  /\ uiFile = [n \in AllNames |-> FALSE]
  /\ pc = "idle"
  /\ cur = UnknownTask
  /\ idx = 0
  /\ curl_command = <<>>
  /\ response = NoResponse
  /\ exitCode = NoExit
  /\ summary = NoSummary
  /\ started = <<>>
  /\ succeeded = {}
  /\ results = <<>>
  /\ call = NoCall
  /\ runBefore = NoRunBefore
  /\ cwd = Elsewhere
  /\ cwdFiles = FALSE
  /\ uiPayload = [n \in AllNames |-> NoPayload]

\* Every ordering of the task directories: os.listdir gives no order.
Listings ==
  {s \in [1..NumTasks -> TaskIds] : \A i, j \in 1..NumTasks : s[i] = s[j] => i = j}

\* What a task directory may hold of an earlier run when the run starts.
InitialCmdFiles == {NoCmdFile, CmdFileOf(EmptyText), CmdFileOf(CurlText)}

Init ==
  /\ entry \in {"pipeline", "executor"}
  /\ argv \in AllNames \cup {NoArg}
  /\ task_folders \in Listings
  /\ cmdFile \in [AllNames -> InitialCmdFiles]
  /\ cmdFile[UnknownTask] = NoCmdFile
  /\ respFile \in [AllNames -> {NoRespFile, OldRespFile}]
  /\ respFile[UnknownTask] = NoRespFile
  /\ uiFile = [n \in AllNames |-> FALSE]
  /\ pc = IF entry = "pipeline" THEN "main" ELSE "cli"
  /\ cur = UnknownTask
  /\ idx = 0
  /\ curl_command = <<>>
  /\ response = NoResponse
  /\ exitCode = NoExit
  /\ summary = NoSummary
  /\ started = <<>>
  /\ succeeded = {}
  /\ results = <<>>
  /\ call = NoCall
  /\ runBefore = NoRunBefore
  /\ cwd \in WorkingDirs
  /\ cwdFiles \in (IF cwd = Elsewhere THEN BOOLEAN ELSE {FALSE})
  /\ uiPayload = [n \in AllNames |-> NoPayload]
  /\ RtIdle
  /\ SubIdle
  /\ GenIdle
  /\ UnitsIdle

(***************************************************************************)
(* pipeline.py: main and process_task.                                     *)
(***************************************************************************)
\* process_task begins for task t: its stage 1 is the next step
BeginTask(t) ==
  /\ cur' = t
  /\ pc' = "stage1"
  /\ runBefore' = [cmd |-> cmdFile[t], resp |-> respFile[t]]

\* process_task returns v: the value goes to the caller
ReturnFromTask(v) ==
  /\ results' = Append(results, <<cur, v>>)
  /\ pc' = "returned"

\* lines 20-25: after stage 1, raised or not
AfterStage1(raised) == IF raised THEN "return_false" ELSE "stage2"

AfterStage2_FallsThrough(success) == "stage3"

\* lines 29-38: after stage 2 returned success (an exception counts as failure)
AfterStage2(success) == IF success THEN "stage3" ELSE "return_false"

LoopGoesOn_StopsOnFailure(ret) == ret

\* lines 77-78: the for loop goes on whatever process_task returned
LoopGoesOn(ret) == TRUE

\* lines 68-71, 80-81: the value of process_task is dropped; the run ends normally
SingleTaskExitCode(ret) == ExitOK

\* lines 75-81: the batch run ends normally
BatchExitCode == ExitOK

\* agent_execute_curl.py lines 73-78
ExecutorExitCode(success) == IF success THEN ExitOK ELSE ExitFail

\* lines 58-74
PipelineMain ==
  /\ pc = "main"
  /\ IF argv # NoArg
     THEN IF \E i \in 1..Len(task_folders) : task_folders[i] = argv
          THEN /\ BeginTask(argv)
               /\ UNCHANGED <<idx, exitCode>>
          ELSE /\ pc' = "exit"
               /\ exitCode' = ExitFail
               /\ UNCHANGED <<cur, idx, runBefore>>
     ELSE /\ pc' = "loop"
          /\ idx' = 1
          /\ UNCHANGED <<cur, exitCode, runBefore>>
  /\ UNCHANGED <<entry, argv, task_folders, cmdFile, respFile, uiFile,
                 curl_command, response, summary, started, succeeded,
                 results, call>>
  /\ UNCHANGED <<cwd, cwdFiles, uiPayload>>
  /\ UNCHANGED othersOfMain

\* lines 77-78: the head of the for loop; no summary is printed at its end
BatchLoop ==
  /\ pc = "loop"
  /\ IF idx <= Len(task_folders)
     THEN /\ BeginTask(task_folders[idx])
          /\ UNCHANGED exitCode
     ELSE /\ pc' = "exit"
          /\ exitCode' = BatchExitCode
          /\ UNCHANGED <<cur, runBefore>>
  /\ UNCHANGED <<entry, argv, task_folders, cmdFile, respFile, uiFile, idx,
                 curl_command, response, summary, started, succeeded,
                 results, call>>
  /\ UNCHANGED <<cwd, cwdFiles, uiPayload>>
  /\ UNCHANGED othersOfMain

\* lines 18-25: stage 1, generate_curl_for_task(task_name): it raises, or it
\* writes the command it built to the task's curl_command_generated.txt
Stage1 ==
  /\ pc = "stage1"
  /\ started' = Append(started, <<cur, 1>>)
  /\ \/ /\ cmdFile' = cmdFile
        /\ succeeded' = succeeded
        /\ IF AfterStage1(TRUE) = "return_false"
           THEN ReturnFromTask(FALSE)
           ELSE pc' = AfterStage1(TRUE) /\ UNCHANGED results
     \/ \E t \in CmdTexts :
          /\ cmdFile' = [cmdFile EXCEPT ![cur] = CmdFileOf(t)]
          /\ succeeded' = succeeded \cup {<<cur, 1>>}
          /\ IF AfterStage1(FALSE) = "return_false"
             THEN ReturnFromTask(FALSE)
             ELSE pc' = AfterStage1(FALSE) /\ UNCHANGED results
  /\ UNCHANGED <<entry, argv, task_folders, respFile, uiFile, cur, idx,
                 curl_command, response, exitCode, summary, call>>
  /\ UNCHANGED <<runBefore, cwd, cwdFiles, uiPayload>>
  /\ UNCHANGED othersOfMain

\* lines 27-30: stage 2 calls execute_curl_for_task(task_name)
Stage2 ==
  /\ pc = "stage2"
  /\ started' = Append(started, <<cur, 2>>)
  /\ pc' = "read"
  /\ call' = [NoCall EXCEPT !.active = TRUE, !.task = cur,
                            !.cmdBefore = cmdFile[cur],
                            !.respBefore = respFile[cur]]
  /\ UNCHANGED <<entry, argv, task_folders, cmdFile, respFile, uiFile, cur,
                 idx, curl_command, response, exitCode, summary, succeeded,
                 results>>
  /\ UNCHANGED <<runBefore, cwd, cwdFiles, uiPayload>>
  /\ UNCHANGED othersOfMain

\* lines 31-38: what process_task does with the executor's value
Stage2Return ==
  /\ pc = "executed"
  /\ entry = "pipeline"
  /\ LET success == call.ret = "true" IN
       /\ succeeded' = IF success THEN succeeded \cup {<<cur, 2>>} ELSE succeeded
       /\ IF AfterStage2(success) = "return_false"
          THEN ReturnFromTask(FALSE)
          ELSE pc' = AfterStage2(success) /\ UNCHANGED results
  /\ UNCHANGED <<entry, argv, task_folders, cmdFile, respFile, uiFile, cur,
                 idx, curl_command, response, exitCode, summary, started,
                 call>>
  /\ UNCHANGED <<runBefore, cwd, cwdFiles, uiPayload>>
  /\ UNCHANGED othersOfMain

\* agent_dspy_v8.py lines 146-153: UIGenerator.forward reads
\* "curl_command_generated.txt" and "response.json", paths relative to the
\* working directory; when one is missing it takes the payloads the task
\* analysis guessed
CwdHasFiles ==
  IF cwd = Elsewhere THEN cwdFiles
  ELSE cmdFile[cwd].exists /\ respFile[cwd].kind # "none"

PayloadSource ==
  IF CwdHasFiles THEN [src |-> "files", dir |-> cwd]
  ELSE [src |-> "analysis", dir |-> Elsewhere]

\* lines 40-56: stage 3, AutoUIGenerator generate and save: the UI file is
\* written and True returned, or an exception makes it False
Stage3 ==
  /\ pc = "stage3"
  /\ started' = Append(started, <<cur, 3>>)
  /\ uiPayload' = [uiPayload EXCEPT ![cur] = PayloadSource]
  /\ \/ /\ uiFile' = [uiFile EXCEPT ![cur] = TRUE]
        /\ succeeded' = succeeded \cup {<<cur, 3>>}
        /\ ReturnFromTask(TRUE)
     \/ /\ UNCHANGED <<uiFile, succeeded>>
        /\ ReturnFromTask(FALSE)
  /\ UNCHANGED <<entry, argv, task_folders, cmdFile, respFile, cur, idx,
                 curl_command, response, exitCode, summary, call>>
  /\ UNCHANGED <<runBefore, cwd, cwdFiles>>
  /\ UNCHANGED othersOfMain

\* lines 71 and 78: back in main after process_task returned
TaskReturned ==
  /\ pc = "returned"
  /\ LET ret == results[Len(results)][2] IN
       IF argv # NoArg
       THEN /\ pc' = "exit"
            /\ exitCode' = SingleTaskExitCode(ret)
            /\ UNCHANGED idx
       ELSE IF LoopGoesOn(ret)
            THEN /\ pc' = "loop"
                 /\ idx' = idx + 1
                 /\ UNCHANGED exitCode
            ELSE /\ pc' = "exit"
                 /\ exitCode' = BatchExitCode
                 /\ UNCHANGED idx
  /\ UNCHANGED <<entry, argv, task_folders, cmdFile, respFile, uiFile, cur,
                 curl_command, response, summary, started, succeeded,
                 results, call>>
  /\ UNCHANGED <<runBefore, cwd, cwdFiles, uiPayload>>
  /\ UNCHANGED othersOfMain

(***************************************************************************)
(* agent_execute_curl.py: execute_curl_for_task and the CLI around it.     *)
(***************************************************************************)
\* execute_curl_for_task returns v
ExecReturn(v) ==
  /\ call' = [call EXCEPT !.ret = IF v THEN "true" ELSE "false"]
  /\ pc' = "executed"

MissingFileResult_True == TRUE

\* lines 21-23: the value returned when the command file is not found
MissingFileResult == FALSE

\* lines 18-20: the value returned when the normalized command is empty
EmptyCommandResult == FALSE

\* lines 28-30: the value returned when uncurl.parse raised an Exception
ParseFailureResult == FALSE

\* lines 39-41: the value returned when the HTTP call raised
HttpFailureResult == FALSE

\* lines 58-60: the value returned when processing the response raised
WriteFailureResult == FALSE

\* the returned value as the call record holds it
RetOf(v) == IF v THEN "true" ELSE "false"

\* lines 65-71: the CLI takes the task name from sys.argv
ExecutorCLI ==
  /\ pc = "cli"
  /\ IF argv = NoArg
     THEN /\ pc' = "exit"
          /\ exitCode' = ExitFail
          /\ UNCHANGED <<cur, call>>
     ELSE /\ cur' = argv
          /\ pc' = "read"
          /\ call' = [NoCall EXCEPT !.active = TRUE, !.task = argv,
                                    !.cmdBefore = cmdFile[argv],
                                    !.respBefore = respFile[argv]]
          /\ UNCHANGED exitCode
  /\ UNCHANGED <<entry, argv, task_folders, cmdFile, respFile, uiFile, idx,
                 curl_command, response, summary, started, succeeded,
                 results>>
  /\ UNCHANGED <<runBefore, cwd, cwdFiles, uiPayload>>
  /\ UNCHANGED othersOfMain

\* lines 13-23: read the command file and normalize it
ExecRead ==
  /\ pc = "read"
  /\ IF ~cmdFile[cur].exists
     THEN /\ ExecReturn(MissingFileResult)
          /\ UNCHANGED curl_command
     ELSE LET cmd == NormalizeCommand(cmdFile[cur].text) IN
          /\ curl_command' = cmd
          /\ IF IsEmptyCommand(cmd)
             THEN ExecReturn(EmptyCommandResult)
             ELSE pc' = "parse" /\ UNCHANGED call
  /\ UNCHANGED <<entry, argv, task_folders, cmdFile, respFile, uiFile, cur,
                 idx, response, exitCode, summary, started, succeeded,
                 results>>
  /\ UNCHANGED <<runBefore, cwd, cwdFiles, uiPayload>>
  /\ UNCHANGED othersOfMain

\* lines 25-33: uncurl.parse(curl_command) gives the request code, raises an
\* Exception (shlex: no closing quotation) or, when its argparse parser
\* rejects the arguments (an option it does not know, no URL), raises
\* SystemExit(2), which neither line 28 nor process_task catches
ExecParse ==
  /\ pc = "parse"
  /\ \/ /\ call' = [call EXCEPT !.parsed = TRUE]
        /\ pc' = "exec"
        /\ UNCHANGED exitCode
     \/ /\ call' = [call EXCEPT !.parsed = TRUE, !.ret = RetOf(ParseFailureResult)]
        /\ pc' = "executed"
        /\ UNCHANGED exitCode
     \/ /\ call' = [call EXCEPT !.parsed = TRUE]
        /\ pc' = "exit"
        /\ exitCode' = ExitUsage
  /\ UNCHANGED <<entry, argv, task_folders, cmdFile, respFile, uiFile, cur,
                 idx, curl_command, response, summary, started,
                 succeeded, results>>
  /\ UNCHANGED <<runBefore, cwd, cwdFiles, uiPayload>>
  /\ UNCHANGED othersOfMain

\* lines 35-44: exec of the request code: the HTTP call raises or answers
ExecRun ==
  /\ pc = "exec"
  /\ \/ /\ call' = [call EXCEPT !.http = @ + 1, !.ret = RetOf(HttpFailureResult)]
        /\ pc' = "executed"
        /\ UNCHANGED response
     \/ \E r \in Responses :
          /\ response' = r
          /\ call' = [call EXCEPT !.http = @ + 1, !.resp = r]
          /\ pc' = "capture"
  /\ UNCHANGED <<entry, argv, task_folders, cmdFile, respFile, uiFile, cur,
                 idx, curl_command, exitCode, summary, started, succeeded,
                 results>>
  /\ UNCHANGED <<runBefore, cwd, cwdFiles, uiPayload>>
  /\ UNCHANGED othersOfMain

\* lines 45-63: persist the response as JSON or as raw text; a write that
\* raises after line 48 opened the file leaves it truncated
ExecCapture ==
  /\ pc = "capture"
  /\ IF Truthy(response)
     THEN IF Unencodable(response)
          THEN /\ respFile' = [respFile EXCEPT ![cur] = TruncatedFile]
               /\ ExecReturn(WriteFailureResult)
          ELSE /\ respFile' = [respFile EXCEPT ![cur] =
                     IF response.isJson THEN PrettyJsonFile(response)
                                        ELSE RawTextFile(response)]
               /\ ExecReturn(TRUE)
     ELSE /\ UNCHANGED respFile
          /\ ExecReturn(FALSE)
  /\ UNCHANGED <<entry, argv, task_folders, cmdFile, uiFile, cur, idx,
                 curl_command, response, exitCode, summary, started,
                 succeeded, results>>
  /\ UNCHANGED <<runBefore, cwd, cwdFiles, uiPayload>>
  /\ UNCHANGED othersOfMain

\* lines 71-78: the CLI turns the value into the exit code
ExecutorExit ==
  /\ pc = "executed"
  /\ entry = "executor"
  /\ pc' = "exit"
  /\ exitCode' = ExecutorExitCode(call.ret = "true")
  /\ UNCHANGED <<entry, argv, task_folders, cmdFile, respFile, uiFile, cur,
                 idx, curl_command, response, summary, started, succeeded,
                 results, call>>
  /\ UNCHANGED <<runBefore, cwd, cwdFiles, uiPayload>>
  /\ UNCHANGED othersOfMain

Next ==
  \/ PipelineMain
  \/ BatchLoop
  \/ Stage1
  \/ Stage2
  \/ Stage2Return
  \/ Stage3
  \/ TaskReturned
  \/ ExecutorCLI
  \/ ExecRead
  \/ ExecParse
  \/ ExecRun
  \/ ExecCapture
  \/ ExecutorExit

Spec == Init /\ [][Next]_vars

(***************************************************************************)
(* Properties of the pipeline driver and the executor.                     *)
(***************************************************************************)
Stages == 1..3
BatchRun == entry = "pipeline" /\ argv = NoArg
SingleRun == entry = "pipeline" /\ argv # NoArg
TasksReturned == [i \in 1..Len(results) |-> results[i][1]]
StartedOf(t) == {k \in Stages : \E i \in 1..Len(started) : started[i] = <<t, k>>}
CountResults(v) == Cardinality({i \in 1..Len(results) : results[i][2] = v})

C2_BatchInOrder ==
  BatchRun =>
    /\ Len(results) <= Len(task_folders)
    /\ \A i \in 1..Len(results) : results[i][1] = task_folders[i]
    /\ \A i \in 1..Len(started) :
         \* the stage belongs to the task after the returned ones
         /\ \E n \in 1..Len(task_folders) :
              /\ task_folders[n] = started[i][1]
              /\ n <= Len(results) + 1
         /\ \A j \in 1..Len(started) :
              (i < j /\ started[i][1] = started[j][1]) =>
                \A m \in i..j : started[m][1] = started[i][1]
    /\ pc = "exit" => TasksReturned = task_folders

\* C2 witness: a batch run ended in which the first listed task failed and
\* the last listed task was still processed, through all its stages.
C2_Witness ==
  /\ BatchRun
  /\ pc = "exit"
  /\ Len(results) = Len(task_folders)
  /\ ~results[1][2]
  /\ results[Len(results)][2]

\* C3: invoked with one task name, an entry point exits 0 exactly when every
\* stage it ran for the task succeeded, and non-zero when the name is missing
\* or unknown or a stage failed.
C3_ExitCodeTellsOutcome ==
  pc = "exit" =>
    /\ entry = "executor" =>
         (exitCode = ExitOK <=> (argv # NoArg /\ call.ret = "true"))
    /\ SingleRun =>
         (exitCode = ExitOK <=>
            /\ results # <<>>
            /\ results[Len(results)][2])

\* C4: at the end of a batch run the driver has reported a summary whose
\* passed count is the number of process_task calls that returned True and
\* whose failed count is the number that returned False.
C4_BatchSummary ==
  (BatchRun /\ pc = "exit") =>
    /\ summary.printed
    /\ summary.passed = CountResults(TRUE)
    /\ summary.failed = CountResults(FALSE)

\* C5: when the command file exists and is empty, execute_curl_for_task
\* returns False, never parses the command, issues no HTTP call and leaves
\* response.json as it was.
C5_EmptyFileFails ==
  (call.active /\ call.cmdBefore = CmdFileOf(EmptyText)) =>
    /\ ~call.parsed
    /\ call.http = 0
    /\ respFile[call.task] = call.respBefore
    /\ pc \notin {"parse", "exec", "capture"} \/ cur # call.task
    /\ call.ret # "true"
    /\ (pc = "executed" => call.ret = "false")

\* C5 witness: a call on an empty command file has returned.
C5_Witness ==
  /\ call.active
  /\ call.cmdBefore = CmdFileOf(EmptyText)
  /\ call.ret = "false"
  /\ pc = "executed"

\* C6: when the command file does not exist, execute_curl_for_task returns
\* False, the executor CLI exits non-zero, no HTTP call is made and
\* response.json is neither created nor modified.
C6_MissingFileFails ==
  (call.active /\ ~call.cmdBefore.exists) =>
    /\ call.http = 0
    /\ respFile[call.task] = call.respBefore
    /\ call.ret # "true"
    /\ (pc \in {"executed", "exit"} => call.ret = "false")
    /\ (pc = "exit" /\ entry = "executor") => exitCode # ExitOK

\* C6 witness: the executor CLI has exited for an existing task directory
\* that holds no command file and an earlier response.json.
C6_Witness ==
  /\ entry = "executor"
  /\ pc = "exit"
  /\ call.active
  /\ call.task \in TaskIds
  /\ ~call.cmdBefore.exists
  /\ call.respBefore = OldRespFile

\* C7: whenever the HTTP call returned a response whose body is not valid
\* JSON, execute_curl_for_task writes the raw text to response.json and
\* returns True.
C7_NonJsonSaved ==
  (call.ret # "none" /\ call.http > 0 /\ call.resp # NoResponse
     /\ ~call.resp.isJson) =>
    /\ call.ret = "true"
    /\ respFile[call.task] = RawTextFile(call.resp)

(***************************************************************************)
(* The executor on one well-formed synthetic command whose JSON body is    *)
(* {"k": "<string>"}, against a server that echoes the request body.       *)
(* uncurl.parse (uncurl/api.py) tokenizes the command with shlex.split and *)
(* returns the text  requests.post("<url>", data='<data>', ...)  with the  *)
(* data token put between single quotes as it is; line 38 exec()s that     *)
(* text, so Python reads the token as a string literal.                    *)
(***************************************************************************)
\* Longest JSON string content of the body.
MaxBodyLen == 3

Q == "\""
SQ == "'"

Fail == [ok |-> FALSE, val |-> <<>>]
Ok(v) == [ok |-> TRUE, val |-> v]

NoTextFile == [exists |-> FALSE, text |-> <<>>]
TextFileOf(t) == [exists |-> TRUE, text |-> t]

\* The characters of the body's string, as written in the JSON text.
BodyChars == {"k", SQ, BS, "n", Q}

\* A well-formed JSON string content: a backslash starts \\, \" or \n and a
\* double quote is escaped.
RECURSIVE ValidJsonContent(_)
ValidJsonContent(s) ==
  IF s = <<>> THEN TRUE
  ELSE IF Head(s) = BS
       THEN /\ Len(s) >= 2
            /\ s[2] \in {BS, "n", Q}
            /\ ValidJsonContent(SubSeq(s, 3, Len(s)))
  ELSE IF Head(s) = Q THEN FALSE
  ELSE ValidJsonContent(Tail(s))

Bodies ==
  {s \in UNION {[1..n -> BodyChars] : n \in 0..MaxBodyLen} : ValidJsonContent(s)}

\* The JSON body {"k": "<s>"} of the synthetic command
JsonBodyText(s) == <<"{", Q, "k", Q, ":", " ", Q>> \o s \o <<Q, "}">>

\* The body as a shell word between single quotes: ' is written '\''
RECURSIVE InSingleQuotes(_)
InSingleQuotes(t) ==
  IF t = <<>> THEN <<>>
  ELSE (IF Head(t) = SQ THEN <<SQ, BS, SQ, SQ>> ELSE <<Head(t)>>)
       \o InSingleQuotes(Tail(t))

\* The body as a shell word between double quotes: " and \ are escaped
RECURSIVE InDoubleQuotes(_)
InDoubleQuotes(t) ==
  IF t = <<>> THEN <<>>
  ELSE (IF Head(t) \in {Q, BS} THEN <<BS, Head(t)>> ELSE <<Head(t)>>)
       \o InDoubleQuotes(Tail(t))

ShellWord(style, t) ==
  IF style = "single" THEN <<SQ>> \o InSingleQuotes(t) \o <<SQ>>
  ELSE <<Q>> \o InDoubleQuotes(t) \o <<Q>>

\* The synthetic command: curl <url> -d <body>, on one line or continued
SyntheticCommand(layout, style, s) ==
  (IF layout = "one_line"
   THEN <<"curl", " ", "http://h/echo", " ", "-d", " ">>
   ELSE <<"curl", " ", "http://h/echo", " ", BS, NL, " ", " ", "-d", " ">>)
  \o ShellWord(style, JsonBodyText(s))

\* shlex.split(curl_command): POSIX rules, no comments
RECURSIVE ShlexScan(_, _, _, _, _)
ShlexScan(rest, mode, tok, inTok, acc) ==
  IF rest = <<>>
  THEN IF mode # "out" THEN Fail
       ELSE Ok(IF inTok THEN Append(acc, tok) ELSE acc)
  ELSE LET c == Head(rest)
           r == Tail(rest)
       IN CASE mode = "out" ->
                 IF IsSpace(c)
                 THEN ShlexScan(r, "out", <<>>, FALSE,
                                IF inTok THEN Append(acc, tok) ELSE acc)
                 ELSE IF c = SQ THEN ShlexScan(r, "sq", tok, TRUE, acc)
                 ELSE IF c = Q THEN ShlexScan(r, "dq", tok, TRUE, acc)
                 ELSE IF c = BS
                      THEN IF r = <<>> THEN Fail
                           ELSE ShlexScan(Tail(r), "out", Append(tok, Head(r)),
                                          TRUE, acc)
                 ELSE ShlexScan(r, "out", Append(tok, c), TRUE, acc)
            [] mode = "sq" ->
                 IF c = SQ THEN ShlexScan(r, "out", tok, TRUE, acc)
                 ELSE ShlexScan(r, "sq", Append(tok, c), TRUE, acc)
            [] OTHER ->
                 IF c = Q THEN ShlexScan(r, "out", tok, TRUE, acc)
                 ELSE IF c = BS
                      THEN IF r = <<>> THEN Fail
                           ELSE IF Head(r) \in {Q, BS}
                                THEN ShlexScan(Tail(r), "dq",
                                               Append(tok, Head(r)), TRUE, acc)
                                ELSE ShlexScan(Tail(r), "dq",
                                               tok \o <<BS, Head(r)>>, TRUE, acc)
                 ELSE ShlexScan(r, "dq", Append(tok, c), TRUE, acc)

ShlexSplit(cmd) == ShlexScan(cmd, "out", <<>>, FALSE, <<>>)

\* argparse: the value of -d, the token after it ('' when there is none)
DataArg(tokens) ==
  LET at == {i \in 1..Len(tokens) - 1 : tokens[i] = <<"-d">>}
  IN IF at = {} THEN <<>>
     ELSE tokens[(CHOOSE i \in at : \A j \in at : i <= j) + 1]

\* uncurl.parse(curl_command): the data token of the request code, or an error
UncurlParse(cmd) ==
  LET toks == ShlexSplit(cmd)
  IN IF ~toks.ok THEN Fail ELSE Ok(DataArg(toks.val))

\* Python reading the source text of string literals: escapes are applied,
\* adjacent literals are joined, anything else is a SyntaxError
RECURSIVE PyScan(_, _, _)
PyScan(rest, mode, val) ==
  IF rest = <<>>
  THEN IF mode = "out" THEN Ok(val) ELSE Fail
  ELSE LET c == Head(rest)
           r == Tail(rest)
       IN IF mode = "out"
          THEN IF c = " " THEN PyScan(r, "out", val)
               ELSE IF c = SQ THEN PyScan(r, "sq", val)
               ELSE IF c = Q THEN PyScan(r, "dq", val)
               ELSE Fail
          ELSE IF (mode = "sq" /\ c = SQ) \/ (mode = "dq" /\ c = Q)
               THEN PyScan(r, "out", val)
          ELSE IF c = NL THEN Fail
          ELSE IF c = BS
               THEN IF r = <<>> THEN Fail
                    ELSE IF Head(r) \in {BS, SQ, Q}
                         THEN PyScan(Tail(r), mode, Append(val, Head(r)))
                    ELSE IF Head(r) = "n"
                         THEN PyScan(Tail(r), mode, Append(val, NL))
                    ELSE PyScan(Tail(r), mode, val \o <<BS, Head(r)>>)
          ELSE PyScan(r, mode, Append(val, c))

\* exec of  response = requests.post(url, data='<data>', ...): the body sent
PyDataLiteral(data) == PyScan(<<SQ>> \o data \o <<SQ>>, "out", <<>>)

\* the server of the round trip answers 200 with the body it received
EchoResponse(sent) == sent

RECURSIVE SkipWS(_)
SkipWS(t) == IF t # <<>> /\ IsSpace(Head(t)) THEN SkipWS(Tail(t)) ELSE t

HasPrefix(t, p) == Len(t) >= Len(p) /\ SubSeq(t, 1, Len(p)) = p
Drop(t, n) == SubSeq(t, n + 1, Len(t))

\* a JSON string after its opening quote: the decoded value and the text
\* after the closing quote
RECURSIVE JsonString(_, _)
JsonString(rest, val) ==
  IF rest = <<>> THEN [ok |-> FALSE, val |-> <<>>, rest |-> <<>>]
  ELSE LET c == Head(rest)
           r == Tail(rest)
       IN IF c = Q THEN [ok |-> TRUE, val |-> val, rest |-> r]
          ELSE IF c \in {NL, "\t", "\r"} THEN [ok |-> FALSE, val |-> <<>>, rest |-> <<>>]
          ELSE IF c = BS
               THEN IF r = <<>> THEN [ok |-> FALSE, val |-> <<>>, rest |-> <<>>]
                    ELSE IF Head(r) \in {BS, Q}
                         THEN JsonString(Tail(r), Append(val, Head(r)))
                    ELSE IF Head(r) = "n"
                         THEN JsonString(Tail(r), Append(val, NL))
                    ELSE [ok |-> FALSE, val |-> <<>>, rest |-> <<>>]
          ELSE JsonString(r, Append(val, c))

\* response.json() / json.loads on the text of an object {"k": "<string>"}
JsonParse(text) ==
  LET t1 == SkipWS(text) IN
  IF ~HasPrefix(t1, <<"{">>) THEN Fail ELSE
  LET t2 == SkipWS(Drop(t1, 1)) IN
  IF ~HasPrefix(t2, <<Q, "k", Q>>) THEN Fail ELSE
  LET t3 == SkipWS(Drop(t2, 3)) IN
  IF ~HasPrefix(t3, <<":">>) THEN Fail ELSE
  LET t4 == SkipWS(Drop(t3, 1)) IN
  IF ~HasPrefix(t4, <<Q>>) THEN Fail ELSE
  LET str == JsonString(Drop(t4, 1), <<>>) IN
  IF ~str.ok THEN Fail ELSE
  LET t5 == SkipWS(str.rest) IN
  IF ~HasPrefix(t5, <<"}">>) THEN Fail ELSE
  IF SkipWS(Drop(t5, 1)) # <<>> THEN Fail ELSE Ok(str.val)

RECURSIVE JsonEscape(_)
JsonEscape(v) ==
  IF v = <<>> THEN <<>>
  ELSE (IF Head(v) \in {BS, Q} THEN <<BS, Head(v)>>
        ELSE IF Head(v) = NL THEN <<BS, "n">>
        ELSE <<Head(v)>>) \o JsonEscape(Tail(v))

\* json.dumps({"k": v}, indent=4, ensure_ascii=False)
JsonDumps(v) ==
  <<"{", NL, " ", " ", " ", " ", Q, "k", Q, ":", " ", Q>>
  \o JsonEscape(v) \o <<Q, NL, "}">>

RtInit ==
  /\ rtPc = "read"
  /\ rtBody \in Bodies
  /\ \E layout \in {"one_line", "continued"}, style \in {"single", "double"} :
       rtFile = SyntheticCommand(layout, style, rtBody)
  /\ rtCmd = <<>>
  /\ rtCode = Fail
  /\ rtSent = Fail
  /\ rtResp = NoTextFile
  /\ rtRet = "none"
  /\ MainIdle
  /\ SubIdle
  /\ GenIdle
  /\ UnitsIdle

\* lines 13-23 on the synthetic command
RtRead ==
  /\ rtPc = "read"
  /\ rtCmd' = NormalizeCommand(rtFile)
  /\ IF IsEmptyCommand(NormalizeCommand(rtFile))
     THEN rtPc' = "done" /\ rtRet' = "false"
     ELSE rtPc' = "parse" /\ rtRet' = rtRet
  /\ UNCHANGED <<rtBody, rtFile, rtCode, rtSent, rtResp>>
  /\ UNCHANGED othersOfRt

\* lines 25-33
RtParse ==
  /\ rtPc = "parse"
  /\ rtCode' = UncurlParse(rtCmd)
  /\ IF ~UncurlParse(rtCmd).ok
     THEN rtPc' = "done" /\ rtRet' = "false"
     ELSE rtPc' = "exec" /\ rtRet' = rtRet
  /\ UNCHANGED <<rtBody, rtFile, rtCmd, rtSent, rtResp>>
  /\ UNCHANGED othersOfRt

\* lines 35-44: the request code is executed; the server echoes the body
RtExec ==
  /\ rtPc = "exec"
  /\ rtSent' = PyDataLiteral(rtCode.val)
  /\ IF ~PyDataLiteral(rtCode.val).ok
     THEN rtPc' = "done" /\ rtRet' = "false"
     ELSE rtPc' = "capture" /\ rtRet' = rtRet
  /\ UNCHANGED <<rtBody, rtFile, rtCmd, rtCode, rtResp>>
  /\ UNCHANGED othersOfRt

\* lines 45-57 on the 200 answer carrying the echoed body
RtCapture ==
  /\ rtPc = "capture"
  /\ LET body == EchoResponse(rtSent.val)
         json_response == JsonParse(body)
     IN rtResp' = IF json_response.ok
                  THEN TextFileOf(JsonDumps(json_response.val))
                  ELSE TextFileOf(body)
  /\ rtRet' = "true"
  /\ rtPc' = "done"
  /\ UNCHANGED <<rtBody, rtFile, rtCmd, rtCode, rtSent>>
  /\ UNCHANGED othersOfRt

RtNext ==
  \/ RtRead
  \/ RtParse
  \/ RtExec
  \/ RtCapture

SpecRoundTrip == RtInit /\ [][RtNext]_vars

\* C8: executing a well-formed synthetic command with a JSON body against an
\* echoing server leaves a response.json whose parsed content equals the
\* JSON body of the command.
C8_RoundTrip ==
  rtPc = "done" =>
    /\ rtRet = "true"
    /\ rtResp.exists
    /\ JsonParse(rtResp.text).ok
    /\ JsonParse(rtResp.text) = JsonParse(JsonBodyText(rtBody))

\* The round trip does hold for the bodies that hold no backslash and no
\* single quote.
RoundTripPlainBodies ==
  (rtPc = "done" /\ \A i \in 1..Len(rtBody) : rtBody[i] \notin {BS, SQ}) =>
    /\ rtRet = "true"
    /\ JsonParse(rtResp.text).ok
    /\ JsonParse(rtResp.text) = JsonParse(JsonBodyText(rtBody))

(***************************************************************************)
(* agent_curl_generator.py lines 71-75: the three re.sub calls on the      *)
(* command the generative service answered.  A command is a sequence of    *)
(* atoms: the punctuation characters one by one, and words without         *)
(* punctuation ("data", "base64", ...) as one atom each.                   *)
(***************************************************************************)
\* Longest service answer, in pieces.
MaxPieces == 2

\* tools/base64_image.txt: the base64 text of a JPEG file
BASE64_IMAGE == <<"/9j/", "4AAQ">>
\* tools/audio_data.txt: an array of samples
AUDIO_DATA == <<"[", "0.1", ",", "0.2", "]">>
\* tools/sampling_rate.txt
SAMPLING_RATE == <<"1", "6", "0", "0", "0">>

IsDigit(c) == c \in {"0", "1", "2", "3", "4", "5", "6", "7", "8", "9"}

\* \s* from position i: the first position that holds no whitespace
RECURSIVE SkipSpaces(_, _)
SkipSpaces(t, i) ==
  IF i <= Len(t) /\ IsSpace(t[i]) THEN SkipSpaces(t, i + 1) ELSE i

\* \d+ from position i: the last position of the run of digits
RECURSIVE DigitsEnd(_, _)
DigitsEnd(t, i) ==
  IF i + 1 <= Len(t) /\ IsDigit(t[i + 1]) THEN DigitsEnd(t, i + 1) ELSE i

\* the first position from i on that holds c, or 0
FirstAt(t, i, c) ==
  LET at == {j \in i..Len(t) : t[j] = c}
  IN IF at = {} THEN 0 ELSE CHOOSE j \in at : \A k \in at : j <= k

\* "key"\s*:\s* matched at p: the position after it, or 0
AfterKey(t, p, key) ==
  IF p + 2 <= Len(t) /\ t[p] = Q /\ t[p + 1] = key /\ t[p + 2] = Q
  THEN LET i == SkipSpaces(t, p + 3)
       IN IF i <= Len(t) /\ t[i] = ":" THEN SkipSpaces(t, i + 1) ELSE 0
  ELSE 0

\* ("data"\s*:\s*")([^"]*base64[^"]*)(") matched at p: the position of
\* group 3, or 0
MatchImage(t, p) ==
  LET v == AfterKey(t, p, "data")
  IN IF v = 0 \/ v > Len(t) \/ t[v] # Q THEN 0
     ELSE LET j == FirstAt(t, v + 1, Q)
          IN IF j # 0 /\ \E m \in (v + 1)..(j - 1) : t[m] = "base64"
             THEN j ELSE 0

\* rf'\1{BASE64_IMAGE}\3' for the match at p
ImageReplacement(t, p) ==
  SubSeq(t, p, AfterKey(t, p, "data")) \o BASE64_IMAGE \o <<Q>>

RECURSIVE SubImageFrom(_, _)
SubImageFrom(t, p) ==
  IF p > Len(t) THEN <<>>
  ELSE IF MatchImage(t, p) = 0 THEN <<t[p]>> \o SubImageFrom(t, p + 1)
  ELSE ImageReplacement(t, p) \o SubImageFrom(t, MatchImage(t, p) + 1)

\* re.sub with count=1: only the first match is replaced
RECURSIVE SubImageFirstFrom(_, _)
SubImageFirstFrom(t, p) ==
  IF p > Len(t) THEN <<>>
  ELSE IF MatchImage(t, p) = 0 THEN <<t[p]>> \o SubImageFirstFrom(t, p + 1)
  ELSE ImageReplacement(t, p) \o SubSeq(t, MatchImage(t, p) + 1, Len(t))

SubImage_FirstOnly(t) == SubImageFirstFrom(t, 1)

\* line 73
SubImage(t) == SubImageFrom(t, 1)

\* "audio_data"\s*:\s*\[[^\]]*\] matched at p: its last position, or 0
MatchAudio(t, p) ==
  LET v == AfterKey(t, p, "audio_data")
  IN IF v = 0 \/ v > Len(t) \/ t[v] # "[" THEN 0
     ELSE FirstAt(t, v + 1, "]")

RECURSIVE SubAudioFrom(_, _)
SubAudioFrom(t, p) ==
  IF p > Len(t) THEN <<>>
  ELSE IF MatchAudio(t, p) = 0 THEN <<t[p]>> \o SubAudioFrom(t, p + 1)
  ELSE <<Q, "audio_data", Q, ":", " ">> \o AUDIO_DATA
       \o SubAudioFrom(t, MatchAudio(t, p) + 1)

\* the pattern "audio_data"\s*:\s*\[.*\] matched at p: the array runs to the
\* last closing bracket of the text
MatchAudioGreedy(t, p) ==
  LET v == AfterKey(t, p, "audio_data")
      at == {j \in (v + 1)..Len(t) : t[j] = "]"}
  IN IF v = 0 \/ v > Len(t) \/ t[v] # "[" \/ at = {} THEN 0
     ELSE CHOOSE j \in at : \A k \in at : k <= j

RECURSIVE SubAudioGreedyFrom(_, _)
SubAudioGreedyFrom(t, p) ==
  IF p > Len(t) THEN <<>>
  ELSE IF MatchAudioGreedy(t, p) = 0 THEN <<t[p]>> \o SubAudioGreedyFrom(t, p + 1)
  ELSE <<Q, "audio_data", Q, ":", " ">> \o AUDIO_DATA
       \o SubAudioGreedyFrom(t, MatchAudioGreedy(t, p) + 1)

SubAudio_Greedy(t) == SubAudioGreedyFrom(t, 1)

\* line 74
SubAudio(t) == SubAudioFrom(t, 1)

\* "sampling_rate"\s*:\s*\d+ matched at p: its last position, or 0
MatchRate(t, p) ==
  LET v == AfterKey(t, p, "sampling_rate")
  IN IF v = 0 \/ v > Len(t) \/ ~IsDigit(t[v]) THEN 0
     ELSE DigitsEnd(t, v)

RECURSIVE SubRateFrom(_, _)
SubRateFrom(t, p) ==
  IF p > Len(t) THEN <<>>
  ELSE IF MatchRate(t, p) = 0 THEN <<t[p]>> \o SubRateFrom(t, p + 1)
  ELSE <<Q, "sampling_rate", Q, ":", " ">> \o SAMPLING_RATE
       \o SubRateFrom(t, MatchRate(t, p) + 1)

\* line 75
SubRate(t) == SubRateFrom(t, 1)

(***************************************************************************)
(* The answers of the generative service: pieces of command text.          *)
(***************************************************************************)
\* whitespace before and after the colon of a field
Spacings == {[b |-> <<>>, a |-> <<>>], [b |-> <<" ">>, a |-> <<NL>>]}

\* string values of a "data" field: two hold an escaped quote, the last a
\* closing bracket
DataValues ==
  {<<"base64">>, <<"x", "base64", "x">>, <<"x">>, <<"base64", BS, Q, "x">>,
   <<"x", BS, Q, "base64">>, <<"base64", "]">>}
\* array literals of an "audio_data" field: empty, flat, nested
ArrayLiterals ==
  {<<"[", "]">>, <<"[", "1", ",", "6", "]">>,
   <<"[", "[", "1", "]", ",", "[", "6", "]", "]">>}
\* numeric literals of a "sampling_rate" field
NumberLiterals == {<<"8", "0">>, <<"-", "1">>, <<"4", ".", "1">>}
\* the beginning of an "audio_data" array whose elements are the next pieces
ArrayOpening == <<Q, "audio_data", Q, ":", "[">>
\* other command text
Fillers == {<<"curl", " ">>, <<",", " ">>, ArrayOpening}

Pieces ==
  [kind : {"data"}, style : {"plain", "escaped"}, ws : Spacings, val : DataValues]
  \cup [kind : {"audio"}, style : {"plain"}, ws : Spacings, val : ArrayLiterals]
  \cup [kind : {"rate"}, style : {"plain"}, ws : Spacings, val : NumberLiterals]
  \cup [kind : {"text"}, style : {"plain"}, ws : {[b |-> <<>>, a |-> <<>>]},
        val : Fillers]

\* a quote as the piece writes it: " or, inside a double-quoted argument, \"
QuoteOf(pc_) == IF pc_.style = "plain" THEN <<Q>> ELSE <<BS, Q>>

KeyOf(pc_) ==
  QuoteOf(pc_)
  \o <<CASE pc_.kind = "data" -> "data"
         [] pc_.kind = "audio" -> "audio_data"
         [] OTHER -> "sampling_rate">>
  \o QuoteOf(pc_) \o pc_.ws.b \o <<":">> \o pc_.ws.a

\* the text of a piece
PieceText(pc_) ==
  CASE pc_.kind = "text" -> pc_.val
    [] pc_.kind = "data" -> KeyOf(pc_) \o QuoteOf(pc_) \o pc_.val \o QuoteOf(pc_)
    [] OTHER -> KeyOf(pc_) \o pc_.val

RECURSIVE Concat(_)
Concat(texts) ==
  IF texts = <<>> THEN <<>> ELSE Head(texts) \o Concat(Tail(texts))

\* result.curl_command
CommandText(ps) == Concat([i \in 1..Len(ps) |-> PieceText(ps[i])])

PieceSeqs == UNION {[1..n -> Pieces] : n \in 1..MaxPieces}

SubInit ==
  /\ subPc = "call"
  /\ subPieces = <<>>
  /\ subImg = <<>>
  /\ subAud = <<>>
  /\ subOut = <<>>
  /\ MainIdle
  /\ RtIdle
  /\ GenIdle
  /\ UnitsIdle

\* lines 64-69: the generative service answers
SubService ==
  /\ subPc = "call"
  /\ subPieces' \in PieceSeqs
  /\ subPc' = "answered"
  /\ UNCHANGED <<subImg, subAud, subOut>>
  /\ UNCHANGED othersOfSub

\* lines 71-75: the three substitutions, in the order of the code
SubSubstitute ==
  /\ subPc = "answered"
  /\ subImg' = SubImage(CommandText(subPieces))
  /\ subAud' = SubAudio(SubImage(CommandText(subPieces)))
  /\ subOut' = SubRate(SubAudio(SubImage(CommandText(subPieces))))
  /\ subPc' = "done"
  /\ UNCHANGED subPieces
  /\ UNCHANGED othersOfSub

SubNext ==
  \/ SubService
  \/ SubSubstitute

SpecSubstitute == SubInit /\ [][SubNext]_vars

\* the characters a match at p covers
MatchImageSpan(t, p) == p..MatchImage(t, p)
MatchAudioSpan(t, p) == p..MatchAudio(t, p)
MatchRateSpan(t, p) == p..MatchRate(t, p)

(***************************************************************************)
(* Properties of the substitutions.                                        *)
(***************************************************************************)
Holds(t, c) == \E i \in 1..Len(t) : t[i] = c

\* the number of places where f occurs in t
Occurrences(f, t) ==
  Cardinality({i \in 1..(Len(t) - Len(f) + 1) : SubSeq(t, i, i + Len(f) - 1) = f})

\* the <value> of "data": "<value>": the text from the opening double quote
\* to the next double quote
ValueSeen(v) ==
  IF Holds(v, Q) THEN SubSeq(v, 1, FirstAt(v, 1, Q) - 1) ELSE v

\* the text of the piece after the double quote that ends <value>
AfterValue(pc_) ==
  IF Holds(pc_.val, Q)
  THEN SubSeq(pc_.val, FirstAt(pc_.val, 1, Q) + 1, Len(pc_.val)) \o <<Q>>
  ELSE <<>>

\* a field "data": "<value>" whose value contains base64
IsBase64Field(pc_) ==
  pc_.kind = "data" /\ pc_.style = "plain" /\ Holds(ValueSeen(pc_.val), "base64")

Base64Fields(ps) == {i \in 1..Len(ps) : IsBase64Field(ps[i])}

\* the piece with the value of a base64 field replaced by the image fixture
WithImage(pc_) ==
  IF IsBase64Field(pc_)
  THEN KeyOf(pc_) \o <<Q>> \o BASE64_IMAGE \o <<Q>> \o AfterValue(pc_)
  ELSE PieceText(pc_)

\* the piece with, besides, the array of an audio_data field replaced by the
\* audio fixture
WithAudio(pc_) ==
  IF pc_.kind = "audio"
  THEN <<Q, "audio_data", Q, ":", " ">> \o AUDIO_DATA
  ELSE WithImage(pc_)

IsNested(pc_) == pc_.kind = "audio" /\ Occurrences(<<"[">>, pc_.val) > 1

\* no piece begins an array that runs over the pieces after it
NoOpenArray(ps) == \A i \in 1..Len(ps) : ps[i].val # ArrayOpening

\* C9 as stated: for every command with a field "data": "<value>" whose
\* value contains base64, every such value is replaced by the complete image
\* fixture and the fixture occurs exactly once in the resulting command.
C9_ImageExactlyOnce ==
  (subPc = "done" /\ Base64Fields(subPieces) # {}) =>
    /\ subImg = Concat([i \in 1..Len(subPieces) |-> WithImage(subPieces[i])])
    /\ Occurrences(BASE64_IMAGE, subImg) = 1
    /\ Occurrences(BASE64_IMAGE, subOut) = 1

\* C9 amended: every field "data": "<value>" whose value contains base64 has
\* its value replaced by the complete image fixture, line 73 changes nothing
\* else, and the fixture occurs once per such field in the command line 73
\* yields, and in the resulting command too when no such field lies inside an
\* audio_data array.
C9_ImageOncePerField ==
  (subPc = "done" /\ Base64Fields(subPieces) # {}) =>
    /\ subImg = Concat([i \in 1..Len(subPieces) |-> WithImage(subPieces[i])])
    /\ Occurrences(BASE64_IMAGE, subImg) = Cardinality(Base64Fields(subPieces))
    /\ NoOpenArray(subPieces) =>
         Occurrences(BASE64_IMAGE, subOut) = Cardinality(Base64Fields(subPieces))

\* C9 witness: a command with two base64 fields, one of them with text around
\* the marker, was substituted and holds the fixture twice.
C9_Witness ==
  /\ subPc = "done"
  /\ Cardinality(Base64Fields(subPieces)) = 2
  /\ \E i \in Base64Fields(subPieces) : Len(subPieces[i].val) > 1
  /\ Occurrences(BASE64_IMAGE, subOut) = 2

\* C10: for every command with an "audio_data" field holding an array literal,
\* nested ones included, line 74 replaces the whole bracketed array by the
\* audio fixture and leaves no fragment of the array.
C10_AudioArrayReplaced ==
  (/\ subPc = "done"
   /\ NoOpenArray(subPieces)
   /\ \E i \in 1..Len(subPieces) : subPieces[i].kind = "audio") =>
    subAud = Concat([i \in 1..Len(subPieces) |-> WithAudio(subPieces[i])])

\* Flat and empty arrays are replaced whole.
FlatAudioArraysReplaced ==
  (/\ subPc = "done"
   /\ NoOpenArray(subPieces)
   /\ \A i \in 1..Len(subPieces) : ~IsNested(subPieces[i])) =>
    subAud = Concat([i \in 1..Len(subPieces) |-> WithAudio(subPieces[i])])

\* the piece with, besides, the numeric literal of a sampling_rate field
\* replaced by the sampling-rate fixture
WithRate(pc_) ==
  IF pc_.kind = "rate"
  THEN <<Q, "sampling_rate", Q, ":", " ">> \o SAMPLING_RATE
  ELSE WithAudio(pc_)

IsInteger(pc_) == pc_.kind = "rate" /\ \A i \in 1..Len(pc_.val) : IsDigit(pc_.val[i])

\* C11: for every command with a "sampling_rate" field holding a numeric
\* literal (integer, decimal or negative), line 75 replaces the whole literal
\* by the sampling-rate fixture: no digit, sign or fractional part of the
\* literal remains.
C11_RateLiteralReplaced ==
  (/\ subPc = "done"
   /\ NoOpenArray(subPieces)
   /\ \E i \in 1..Len(subPieces) : subPieces[i].kind = "rate"
   /\ \A i \in 1..Len(subPieces) : ~IsNested(subPieces[i])) =>
    subOut = Concat([i \in 1..Len(subPieces) |-> WithRate(subPieces[i])])

\* Unsigned integer literals are replaced whole.
IntegerRatesReplaced ==
  (/\ subPc = "done"
   /\ NoOpenArray(subPieces)
   /\ \A i \in 1..Len(subPieces) :
        ~IsNested(subPieces[i]) /\ (subPieces[i].kind = "rate" => IsInteger(subPieces[i]))) =>
    subOut = Concat([i \in 1..Len(subPieces) |-> WithRate(subPieces[i])])

\* the texts the three substitutions yield in their six orders
SixOrders(t) ==
  {SubRate(SubAudio(SubImage(t))), SubAudio(SubRate(SubImage(t))),
   SubRate(SubImage(SubAudio(t))), SubImage(SubRate(SubAudio(t))),
   SubAudio(SubImage(SubRate(t))), SubImage(SubAudio(SubRate(t)))}

\* the positions of the matches the three patterns have in the text
ImageSpans(t) == {MatchImageSpan(t, p) : p \in {q \in 1..Len(t) : MatchImage(t, q) # 0}}
AudioSpans(t) == {MatchAudioSpan(t, p) : p \in {q \in 1..Len(t) : MatchAudio(t, q) # 0}}
RateSpans(t) == {MatchRateSpan(t, p) : p \in {q \in 1..Len(t) : MatchRate(t, q) # 0}}

Apart(S, T) == \A a \in S, b \in T : a \cap b = {}

\* no match of one pattern shares a character with a match of another
NoOverlap(t) ==
  /\ Apart(ImageSpans(t), AudioSpans(t))
  /\ Apart(ImageSpans(t), RateSpans(t))
  /\ Apart(AudioSpans(t), RateSpans(t))

HasBase64Value(pc_) == pc_.kind = "data" /\ Holds(pc_.val, "base64")

\* C13: after substitution the command holds no "data" field whose value still
\* contains base64, however the quotes of the field are written (the marker
\* stands only in values of "data" fields, and the image fixture does not hold
\* it).
C13_NoBase64Left ==
  (subPc = "done" /\ \E i \in 1..Len(subPieces) : HasBase64Value(subPieces[i])) =>
    ~Holds(subOut, "base64")

\* Fields written with plain double quotes and a value free of quotes lose
\* the marker.
PlainFieldsLoseBase64 ==
  (/\ subPc = "done"
   /\ \A i \in 1..Len(subPieces) :
        HasBase64Value(subPieces[i]) =>
          subPieces[i].style = "plain" /\ ~Holds(subPieces[i].val, Q)) =>
    ~Holds(subOut, "base64")

(***************************************************************************)
(* generate_curl_for_task: loading task.yaml, the call of the generative   *)
(* service, the substitutions, the write and the return.                   *)
(***************************************************************************)
MaxConfigLines == 3

\* Lines of a task.yaml as bytes.  The comment lines end in the byte E9 (an
\* e-acute in Latin-1, not UTF-8), the bytes C3 A9 (an e-acute in UTF-8) and
\* the byte 81 (undefined in Windows-1252, a control character in Latin-1).
AsciiLines == {"other: v", "model_information:", "  url: u", "{"}
ByteLines == AsciiLines \cup {"# E9", "# C3A9", "# 81"}

NoConfig == [exists |-> FALSE, lines |-> <<>>]
ConfigFiles ==
  {NoConfig} \cup
  {[exists |-> TRUE, lines |-> l] :
     l \in UNION {[1..n -> ByteLines] : n \in 0..MaxConfigLines}}

\* the codec Python finds for an encoding name
Codec(name) ==
  CASE name = "utf-8" -> "utf-8"
    [] name = "ascii" -> "ascii"
    [] name \in {"latin-1", "ISO-8859-1"} -> "latin-1"
    [] name = "Windows-1252" -> "cp1252"
    [] OTHER -> "unknown"

Undecodable == "!"

\* one line decoded by a codec
DecodeLine(codec, l) ==
  CASE l \in AsciiLines -> l
    [] l = "# E9" -> IF codec \in {"latin-1", "cp1252"} THEN "# e-acute"
                     ELSE Undecodable
    [] l = "# C3A9" -> IF codec = "utf-8" THEN "# e-acute"
                       ELSE IF codec \in {"latin-1", "cp1252"} THEN "# A-tilde copyright"
                       ELSE Undecodable
    [] OTHER -> IF codec = "latin-1" THEN "# U+0081" ELSE Undecodable

\* open(file_path, "r", encoding=name) and f.read()
Decode(name, lines) ==
  IF Codec(name) = "unknown" THEN [err |-> "LookupError", text |-> <<>>]
  ELSE IF \E i \in 1..Len(lines) : DecodeLine(Codec(name), lines[i]) = Undecodable
  THEN [err |-> "UnicodeDecodeError", text |-> <<>>]
  ELSE [err |-> "none",
        text |-> [i \in 1..Len(lines) |-> DecodeLine(Codec(name), lines[i])]]

\* detected["encoding"]: what chardet.detect may answer ("None": no guess;
\* EUC-TW is a name Python has no codec for)
Detections == {"None", "utf-8", "ascii", "ISO-8859-1", "Windows-1252", "EUC-TW"}

\* detected["encoding"] or "latin-1"
EncodingOr(d) == IF d = "None" THEN "latin-1" ELSE d

\* except UnicodeDecodeError only
CaughtByRetry_DecodeOnly == {"UnicodeDecodeError"}

\* except (UnicodeDecodeError, LookupError)
CaughtByRetry == {"UnicodeDecodeError", "LookupError"}

\* yaml.safe_load on the decoded lines
IsComment(l) == l \in {"# e-acute", "# A-tilde copyright", "# U+0081"}

YamlError == [kind |-> "error", mi |-> "-"]
YamlNone == [kind |-> "none", mi |-> "-"]
YamlMapping(mi) == [kind |-> "mapping", mi |-> mi]

\* the last of the lines "  url: u" that follow line i
RECURSIVE NestedEnd(_, _)
NestedEnd(L, i) ==
  IF i + 1 <= Len(L) /\ L[i + 1] = "  url: u" THEN NestedEnd(L, i + 1) ELSE i

\* the entries of a block mapping at column 0, from line i on; a later key
\* overrides an earlier one
RECURSIVE YamlEntries(_, _, _)
YamlEntries(L, i, mi) ==
  IF i > Len(L) THEN YamlMapping(mi)
  ELSE IF L[i] = "other: v" THEN YamlEntries(L, i + 1, mi)
  ELSE IF L[i] = "model_information:"
  THEN YamlEntries(L, NestedEnd(L, i) + 1,
                   IF NestedEnd(L, i) > i THEN "map" ELSE "null")
  ELSE YamlError

YamlParse(text) ==
  LET L == SelectSeq(text, LAMBDA l : ~IsComment(l))
  IN IF \E i \in 1..Len(text) : text[i] = "# U+0081" THEN YamlError
     ELSE IF \E i \in 1..Len(L) : L[i] = "{" THEN YamlError
     ELSE IF L = <<>> THEN YamlNone
     ELSE IF L[1] = "  url: u"
     THEN IF \A i \in 1..Len(L) : L[i] = "  url: u" THEN YamlMapping("absent")
          ELSE YamlError
     ELSE YamlEntries(L, 1, "absent")

\* a loader that takes an unreadable document for an empty one
YamlLoad_Lenient(text) ==
  IF YamlParse(text) = YamlError THEN YamlNone ELSE YamlParse(text)

YamlLoad(text) == YamlParse(text)

\* json.dumps(task_data.get("model_information", {}))
DumpedModelInfo(doc) ==
  CASE doc.mi = "absent" -> "{}"
    [] doc.mi = "null" -> "null"
    [] OTHER -> "{url: u}"

\* the answers of the service in this specification
AnswerValues == {<<"base64">>, <<"8", "0">>, <<"[", "1", ",", "6", "]">>, <<"curl", " ">>}
GenAnswers ==
  {PieceText(pc_) : pc_ \in {q \in Pieces : /\ q.val \in AnswerValues
                                            /\ q.style = "plain"
                                            /\ q.ws = [b |-> <<>>, a |-> <<>>]}}

OldOutFile == [exists |-> TRUE, text |-> <<"old">>]
NoOutFile == [exists |-> FALSE, text |-> <<>>]

\* where a failed call of the service leads
AfterServiceFailure_Retry == "call"
AfterServiceFailure == "raised"

\* f.write of the service's answer as it came
WrittenText_Answer(answer, cmd) == answer
\* f.write(curl_command)
WrittenText(answer, cmd) == cmd

GenInit ==
  /\ genPc = "read"
  /\ genConfig \in ConfigFiles
  /\ genOutFile \in {NoOutFile, OldOutFile}
  /\ genTried = <<>>
  /\ genText = <<>>
  /\ genInfo = "-"
  /\ genCalls = 0
  /\ genAnswer = <<>>
  /\ genCmd = <<>>
  /\ genRet = <<>>
  /\ genErr = "none"
  /\ MainIdle
  /\ RtIdle
  /\ SubIdle
  /\ UnitsIdle

GenRaise(e) ==
  /\ genPc' = "raised"
  /\ genErr' = e

\* lines 58-60 and safe_read_file lines 10-12, 25-26: the UTF-8 read
GenReadUtf8 ==
  /\ genPc = "read"
  /\ IF ~genConfig.exists
     THEN /\ GenRaise("FileNotFoundError")
          /\ UNCHANGED <<genTried, genText>>
     ELSE /\ genTried' = <<"utf-8">>
          /\ genErr' = genErr
          /\ IF Decode("utf-8", genConfig.lines).err = "none"
             THEN /\ genText' = Decode("utf-8", genConfig.lines).text
                  /\ genPc' = "parse"
             ELSE /\ genText' = genText
                  /\ genPc' = "detect"
  /\ UNCHANGED <<genConfig, genOutFile, genInfo, genCalls, genAnswer, genCmd, genRet>>
  /\ UNCHANGED othersOfGen

\* safe_read_file lines 13-22: the read with the detected encoding
GenDetect ==
  /\ genPc = "detect"
  /\ \E d \in Detections :
       LET r == Decode(EncodingOr(d), genConfig.lines)
       IN /\ genTried' = Append(genTried, EncodingOr(d))
          /\ IF r.err = "none"
             THEN genText' = r.text /\ genPc' = "parse" /\ genErr' = genErr
             ELSE IF r.err \in CaughtByRetry
             THEN genText' = genText /\ genPc' = "latin1" /\ genErr' = genErr
             ELSE genText' = genText /\ GenRaise(r.err)
  /\ UNCHANGED <<genConfig, genOutFile, genInfo, genCalls, genAnswer, genCmd, genRet>>
  /\ UNCHANGED othersOfGen

\* safe_read_file lines 22-24: the Latin-1 read
GenLatin1 ==
  /\ genPc = "latin1"
  /\ genTried' = Append(genTried, "latin-1")
  /\ genText' = Decode("latin-1", genConfig.lines).text
  /\ genPc' = "parse"
  /\ UNCHANGED <<genConfig, genOutFile, genInfo, genCalls, genAnswer, genCmd, genRet, genErr>>
  /\ UNCHANGED othersOfGen

\* lines 61-62: yaml.safe_load and task_data.get
GenParse ==
  /\ genPc = "parse"
  /\ CASE YamlLoad(genText).kind = "error" ->
            GenRaise("YAMLError") /\ genInfo' = genInfo
       [] YamlLoad(genText).kind = "none" ->
            GenRaise("AttributeError") /\ genInfo' = genInfo
       [] OTHER ->
            /\ genInfo' = DumpedModelInfo(YamlLoad(genText))
            /\ genPc' = "call"
            /\ genErr' = genErr
  /\ UNCHANGED <<genConfig, genOutFile, genTried, genText, genCalls, genAnswer, genCmd, genRet>>
  /\ UNCHANGED othersOfGen

\* lines 64-69: the call of the generative service
GenCall ==
  /\ genPc = "call"
  /\ genCalls' = genCalls + 1
  /\ \/ /\ genPc' = AfterServiceFailure
        /\ genErr' = IF AfterServiceFailure = "raised" THEN "ServiceError" ELSE genErr
        /\ genAnswer' = genAnswer
     \/ /\ genAnswer' \in GenAnswers
        /\ genPc' = "substitute"
        /\ genErr' = genErr
  /\ UNCHANGED <<genConfig, genOutFile, genTried, genText, genInfo, genCmd, genRet>>
  /\ UNCHANGED othersOfGen

\* lines 71-75
GenSubstitute ==
  /\ genPc = "substitute"
  /\ genCmd' = SubRate(SubAudio(SubImage(genAnswer)))
  /\ genPc' = "write"
  /\ UNCHANGED <<genConfig, genOutFile, genTried, genText, genInfo, genCalls, genAnswer, genRet, genErr>>
  /\ UNCHANGED othersOfGen

\* lines 77-79
GenWrite ==
  /\ genPc = "write"
  /\ genOutFile' = [exists |-> TRUE, text |-> WrittenText(genAnswer, genCmd)]
  /\ genPc' = "return"
  /\ UNCHANGED <<genConfig, genTried, genText, genInfo, genCalls, genAnswer, genCmd, genRet, genErr>>
  /\ UNCHANGED othersOfGen

\* line 81
GenReturn ==
  /\ genPc = "return"
  /\ genRet' = genCmd
  /\ genPc' = "done"
  /\ UNCHANGED <<genConfig, genOutFile, genTried, genText, genInfo, genCalls, genAnswer, genCmd, genErr>>
  /\ UNCHANGED othersOfGen

GenNext ==
  \/ GenReadUtf8
  \/ GenDetect
  \/ GenLatin1
  \/ GenParse
  \/ GenCall
  \/ GenSubstitute
  \/ GenWrite
  \/ GenReturn

SpecGenerate == GenInit /\ [][GenNext]_vars

(***************************************************************************)
(* Properties of generate_curl_for_task.                                   *)
(***************************************************************************)
BeforeParse == {"read", "detect", "latin1"}
NotWritten == genOutFile \in {NoOutFile, OldOutFile}

\* C14: for every existing file, whatever its bytes, safe_read_file raises no
\* encoding error and returns a string: the UTF-8 text, or after a UTF-8
\* decode failure the text in the detected encoding, or after a failure of
\* that retry (decode error or unknown encoding name) the Latin-1 text.
C14_NeverRaisesOnEncoding ==
  genConfig.exists =>
    /\ genErr \notin {"UnicodeDecodeError", "LookupError"}
    /\ Len(genTried) >= 2 =>
         /\ genTried[1] = "utf-8"
         /\ Decode("utf-8", genConfig.lines).err = "UnicodeDecodeError"
    /\ Len(genTried) = 3 =>
         /\ Decode(genTried[2], genConfig.lines).err \in {"UnicodeDecodeError", "LookupError"}
         /\ genTried[3] = "latin-1"
    /\ genPc \notin BeforeParse =>
         /\ Len(genTried) \in 1..3
         /\ Decode(genTried[Len(genTried)], genConfig.lines).err = "none"
         /\ genText = Decode(genTried[Len(genTried)], genConfig.lines).text

\* C14 witness: a file that is not UTF-8 was detected as an encoding Python
\* does not know, and was read as Latin-1.
C14_Witness ==
  /\ genPc = "parse"
  /\ Len(genTried) = 3
  /\ Decode(genTried[2], genConfig.lines).err = "LookupError"
  /\ genText = Decode("latin-1", genConfig.lines).text

\* C15: a missing task.yaml ends generate_curl_for_task with a not-found
\* error, and a text that is not valid YAML with a parse error; in both cases
\* the service has not been called and curl_command_generated.txt has not
\* been written.
C15_LoaderErrorsComeFirst ==
  /\ (~genConfig.exists /\ genPc # "read") =>
       /\ genPc = "raised"
       /\ genErr = "FileNotFoundError"
       /\ genCalls = 0
       /\ NotWritten
  /\ (/\ genConfig.exists
      /\ genPc \notin BeforeParse \cup {"parse"}
      /\ YamlParse(genText) = YamlError) =>
       /\ genPc = "raised"
       /\ genErr = "YAMLError"
       /\ genCalls = 0
       /\ NotWritten

\* C15 witness: a text read as Latin-1 was not valid YAML and the run ended
\* with the parse error, the file of an earlier run untouched.
C15_Witness ==
  /\ genPc = "raised"
  /\ genErr = "YAMLError"
  /\ Len(genTried) = 3
  /\ genOutFile = OldOutFile

\* the document has no model_information: it is empty, has no such key, or
\* the key has no value
InfoAbsent(doc) == doc = YamlNone \/ (doc.kind = "mapping" /\ doc.mi \in {"absent", "null"})

\* C16: for every configuration that deserializes and has no
\* model_information (an empty document and a key without value included),
\* the loader does not fail and the model information passed to the service
\* is the empty mapping.
C16_AbsentInfoIsEmptyMapping ==
  (/\ genConfig.exists
   /\ genPc \notin BeforeParse \cup {"parse"}
   /\ InfoAbsent(YamlParse(genText))) =>
    /\ genErr \in {"none", "ServiceError"}
    /\ genInfo = "{}"

\* A mapping without the key passes the empty mapping.
MissingKeyIsEmptyMapping ==
  (/\ genConfig.exists
   /\ genPc \notin BeforeParse \cup {"parse"}
   /\ YamlParse(genText) = YamlMapping("absent")) =>
    /\ genErr \in {"none", "ServiceError"}
    /\ genInfo = "{}"

Ended == genPc \in {"done", "raised"}

\* C17 as stated: every invocation calls the service exactly once; a failed
\* call propagates, is not retried, no substitution is applied and
\* curl_command_generated.txt is not written.
C17_ServiceCalledOnce ==
  /\ Ended => genCalls = 1
  /\ genErr = "ServiceError" =>
       genPc = "raised" /\ genCmd = <<>> /\ genRet = <<>> /\ NotWritten

\* C17 amended: the service is called at most once, exactly once in every
\* invocation whose configuration loaded and never in one whose loading
\* failed; a failed call propagates, is not retried, no substitution is
\* applied and curl_command_generated.txt is not written.
C17_ServiceCalledOnceAfterLoading ==
  /\ genCalls <= 1
  /\ Ended => genCalls = IF genErr \in {"none", "ServiceError"} THEN 1 ELSE 0
  /\ genErr = "ServiceError" =>
       genPc = "raised" /\ genCmd = <<>> /\ genRet = <<>> /\ NotWritten

\* C17 witness: the one call failed and the file of an earlier run is as it
\* was.
C17_Witness ==
  /\ genPc = "raised"
  /\ genErr = "ServiceError"
  /\ genCalls = 1
  /\ genOutFile = OldOutFile

\* C18: on success the returned string is the content written to
\* curl_command_generated.txt and is the service's answer after the three
\* substitutions.
C18_ReturnsWhatItWrote ==
  genPc = "done" =>
    /\ genOutFile = [exists |-> TRUE, text |-> genRet]
    /\ genRet = SubRate(SubAudio(SubImage(genAnswer)))

\* C18 witness: a run ended well with an answer the substitutions changed.
C18_Witness ==
  /\ genPc = "done"
  /\ genRet # genAnswer
  /\ genOutFile.text = genRet

(***************************************************************************)
(* Properties of the executor's run.                                       *)
(***************************************************************************)
\* every step that can be taken is taken in the end
FairSpec == Spec /\ WF_vars(Next)

\* the steps of execute_curl_for_task: Read and Normalize, Parse, Execute
\* HTTP call, Capture and Persist, and the return
ExecSteps == {"read", "parse", "exec", "capture", "executed"}
StepRank(p) ==
  CASE p = "read" -> 1
    [] p = "parse" -> 2
    [] p = "exec" -> 3
    [] p = "capture" -> 4
    [] OTHER -> 5

\* Done or Failed: the call has returned True or False
Returned == call.ret \in {"true", "false"}

StepsForward ==
  (pc \in ExecSteps /\ pc' \in ExecSteps) => StepRank(pc) <= StepRank(pc')

HttpAfterParse ==
  /\ pc \in {"exec", "capture"} => call.parsed
  /\ call.http > 0 => call.parsed

\* C19: a run of the executor takes its steps in the order Read, Normalize,
\* Parse, Execute HTTP call, Capture, Persist and never goes back; the HTTP
\* call comes only after a successful parse; a run that has left its steps
\* has ended in Done or Failed, a failure at any step giving Failed; and
\* every run does end in Done or Failed.
C19_RunEndsDoneOrFailed ==
  /\ [][StepsForward]_vars
  /\ []HttpAfterParse
  /\ []((call.active /\ pc \notin ExecSteps \ {"executed"}) => Returned)
  /\ (call.active ~> Returned)

\* The steps are taken in order and the HTTP call follows a successful parse.
StepsInOrder == [][StepsForward]_vars /\ []HttpAfterParse

\* the step at which a call that returned False failed
FailureKinds ==
  {"CommandFileMissing", "EmptyCommand", "CommandParseError", "HttpExecutionError"}

FailureKind ==
  IF ~call.cmdBefore.exists THEN "CommandFileMissing"
  ELSE IF ~call.parsed THEN "EmptyCommand"
  ELSE IF call.http = 0 THEN "CommandParseError"
  ELSE IF call.resp = NoResponse THEN "HttpExecutionError"
  ELSE "NoResponse"

\* the value execute_curl_for_task returns for a failure of each kind
ResultFor(k) ==
  CASE k = "CommandFileMissing" -> MissingFileResult
    [] k = "EmptyCommand" -> EmptyCommandResult
    [] k = "CommandParseError" -> ParseFailureResult
    [] OTHER -> HttpFailureResult

\* C20: the caller can tell from the outcome of execute_curl_for_task which
\* step failed (missing command file, empty command, parse failure, HTTP
\* execution failure): the value a failed call returned is the value of its
\* kind of failure and of no other kind.
C20_FailureKindsDistinct ==
  (pc = "executed" /\ call.ret # "true" /\ FailureKind \in FailureKinds) =>
    /\ call.ret = RetOf(ResultFor(FailureKind))
    /\ \A k \in FailureKinds \ {FailureKind} : RetOf(ResultFor(k)) # call.ret

\* A failed call returns the value of its kind of failure.
FailureReturnsItsValue ==
  (pc = "executed" /\ call.ret # "true" /\ FailureKind \in FailureKinds) =>
    call.ret = RetOf(ResultFor(FailureKind))

(***************************************************************************)
(* Properties of the files of a task.                                      *)
(***************************************************************************)
LastResult == results[Len(results)]

\* C21: a run of process_task that failed at stage 2 or stage 3 retains no
\* partial state: the task's curl_command_generated.txt and response.json
\* are as they were when the run began.
C21_FailedRunLeavesNoTrace ==
  (pc = "returned" /\ ~LastResult[2] /\ 2 \in StartedOf(cur)) =>
    /\ cmdFile[cur] = runBefore.cmd
    /\ respFile[cur] = runBefore.resp

\* A run that failed at stage 1 leaves both files as they were.
Stage1FailureLeavesNoTrace ==
  (pc = "returned" /\ ~LastResult[2] /\ 2 \notin StartedOf(cur)) =>
    /\ cmdFile[cur] = runBefore.cmd
    /\ respFile[cur] = runBefore.resp

\* the file execute_curl_for_task writes for a response
PersistedFile(r) == IF r.isJson THEN PrettyJsonFile(r) ELSE RawTextFile(r)

\* C26: every response the request returned, whatever its status code, is
\* persisted to response.json as pretty-printed JSON or raw text and
\* execute_curl_for_task returns True.
C26_EveryResponsePersisted ==
  (pc = "executed" /\ call.http > 0 /\ call.resp # NoResponse) =>
    /\ call.ret = "true"
    /\ respFile[call.task] = PersistedFile(call.resp)

\* Responses with a status code below 400 and an encodable body are persisted.
OkResponsesPersisted ==
  (/\ pc = "executed"
   /\ call.http > 0
   /\ call.resp # NoResponse
   /\ call.resp.ok
   /\ ~Unencodable(call.resp)) =>
    /\ call.ret = "true"
    /\ respFile[call.task] = PersistedFile(call.resp)

\* C27: the payloads stage 3 uses for a task are the contents of the
\* curl_command_generated.txt and response.json of that task's directory,
\* which stages 1 and 2 wrote in the same run.
C27_Stage3UsesRunFiles ==
  \A t \in TaskIds :
    uiPayload[t].src # "none" => uiPayload[t] = [src |-> "files", dir |-> t]

\* A process started in the task's own directory does read that task's files.
Stage3InOwnDirUsesRunFiles ==
  \A t \in TaskIds :
    (uiPayload[t].src # "none" /\ cwd = t) =>
      uiPayload[t] = [src |-> "files", dir |-> t]

\* C28: when execute_curl_for_task returned True, response.json holds the
\* body of the response of that call and nothing else; when it returned
\* False, response.json is as it was before the call.
C28_ResponseFileFollowsReturn ==
  (call.active /\ pc = "executed") =>
    /\ call.ret = "true" => respFile[call.task] = PersistedFile(call.resp)
    /\ call.ret = "false" => respFile[call.task] = call.respBefore

\* A call that returned True wrote the body of its response.
TrueMeansWritten ==
  (call.active /\ pc = "executed" /\ call.ret = "true") =>
    respFile[call.task] = PersistedFile(call.resp)

(***************************************************************************)
(* The reading of the command file, lines 14-20 of execute_curl_for_task,  *)
(* on every short text.                                                    *)
(***************************************************************************)
MaxTextLen == 5

TextChars == {" ", NL, BS, "c"}

Texts == UNION {[1..n -> TextChars] : n \in 0..MaxTextLen}

NzInit ==
  /\ nzPc = "read"
  /\ nzText \in Texts
  /\ nzCmd = <<>>
  /\ nzVerdict = "none"
  /\ MainIdle
  /\ RtIdle
  /\ SubIdle
  /\ GenIdle
  /\ ExIdle
  /\ RrIdle
  /\ EqIdle
  /\ CcIdle

\* lines 15-17: read and join the lines
NzNormalize ==
  /\ nzPc = "read"
  /\ nzCmd' = NormalizeCommand(nzText)
  /\ nzPc' = "check"
  /\ UNCHANGED <<nzText, nzVerdict>>
  /\ UNCHANGED othersOfNz

\* lines 18-20 and 27: an empty command returns False, any other is parsed
NzCheck ==
  /\ nzPc = "check"
  /\ nzVerdict' = IF IsEmptyCommand(nzCmd) THEN "empty" ELSE "parse"
  /\ nzPc' = "done"
  /\ UNCHANGED <<nzText, nzCmd>>
  /\ UNCHANGED othersOfNz

NzNext == NzNormalize \/ NzCheck

SpecNormalize == NzInit /\ [][NzNext]_vars

\* the lines of the text that are not blank, trimmed
TrimmedLines(text) ==
  LET ls == FileLines(text)
  IN SelectSeq([i \in 1..Len(ls) |-> Strip(ls[i])], LAMBDA l : l # <<>>)

OnlyBackslashes(l) == \A i \in 1..Len(l) : l[i] = BS

\* the file holds only blank lines, whitespace and lines of backslashes
NothingButContinuations(text) ==
  \A i \in 1..Len(TrimmedLines(text)) : OnlyBackslashes(TrimmedLines(text)[i])

\* C24: a command file made only of blank lines, whitespace and lines that
\* hold nothing but continuation backslashes is reported as an empty command
\* and its command is never handed to the parser.
C24_ContinuationsOnlyIsEmpty ==
  (nzPc = "done" /\ NothingButContinuations(nzText)) => nzVerdict = "empty"

\* With at most one line of backslashes such a file is reported empty, and
\* the empty command is reported exactly when the joined text is empty.
OneContinuationLineIsEmpty ==
  /\ (nzPc = "done" /\ NothingButContinuations(nzText)
        /\ Len(TrimmedLines(nzText)) <= 1) => nzVerdict = "empty"
  /\ nzPc = "done" => (nzVerdict = "empty" <=> nzCmd = <<>>)

\* a line without its one trailing continuation backslash
DropContinuation(l) ==
  IF l # <<>> /\ l[Len(l)] = BS THEN SubSeq(l, 1, Len(l) - 1) ELSE l

\* C25: the normalized command is the non-blank lines, each trimmed and
\* without its trailing continuation backslash, joined in file order with a
\* single space; every other character of every line is preserved in order.
C25_NormalizationKeepsOtherChars ==
  nzPc # "read" =>
    nzCmd = JoinSpace([i \in 1..Len(TrimmedLines(nzText)) |->
                         DropContinuation(TrimmedLines(nzText)[i])])

\* Where no line ends in more than one backslash nothing else is lost.
SingleContinuationsKeepOtherChars ==
  (/\ nzPc # "read"
   /\ \A i \in 1..Len(TrimmedLines(nzText)) :
        LET l == TrimmedLines(nzText)[i]
        IN ~(Len(l) >= 2 /\ l[Len(l)] = BS /\ l[Len(l) - 1] = BS)) =>
    nzCmd = JoinSpace([i \in 1..Len(TrimmedLines(nzText)) |->
                         DropContinuation(TrimmedLines(nzText)[i])])

(***************************************************************************)
(* extract_html_block (extract.py).  A line is a sequence of pieces: a     *)
(* space, a run of three backquotes, the word html, or other text.         *)
(***************************************************************************)
MaxLines == 4

\* a run of three backquotes
Fence == "FENCE"

ExLineValues ==
  { <<Fence, "html">>, <<" ", Fence, "html">>, <<Fence>>, <<" ", Fence>>,
    <<Fence, "p">>, <<"p">>, <<"p", Fence>>, <<" ">> }

ExInputs == UNION {[1..n -> ExLineValues] : n \in 0..MaxLines}

OldHtmlFile == [exists |-> TRUE, lines |-> << <<"p", "p">> >>]

\* a piece is whitespace
IsBlankPiece(c) == c = " "

RECURSIVE LStripPieces(_)
LStripPieces(l) ==
  IF l # <<>> /\ IsBlankPiece(Head(l)) THEN LStripPieces(Tail(l)) ELSE l

\* line.strip().startswith(FENCE + "html")
IsOpeningFence(line) ==
  LET l == LStripPieces(line) IN Len(l) >= 2 /\ l[1] = Fence /\ l[2] = "html"

IsClosingFence_Untrimmed(line) == line # <<>> /\ line[1] = Fence

\* line.strip().startswith(FENCE)
IsClosingFence(line) ==
  LET l == LStripPieces(line) IN l # <<>> /\ l[1] = Fence

ExInit ==
  /\ exPc = "loop"
  /\ exInput \in ExInputs
  /\ exPos = 0
  /\ exIn = FALSE
  /\ exHtml = <<>>
  /\ exOut \in {NoHtmlFile, OldHtmlFile}
  /\ exBefore = exOut
  /\ MainIdle
  /\ RtIdle
  /\ SubIdle
  /\ GenIdle
  /\ NzIdle
  /\ RrIdle
  /\ EqIdle
  /\ CcIdle

\* lines 7-14: one turn of the loop
ExLine ==
  /\ exPc = "loop"
  /\ exPos < Len(exInput)
  /\ LET line == exInput[exPos + 1]
     IN IF ~exIn /\ IsOpeningFence(line)
        THEN exIn' = TRUE /\ exPc' = "loop" /\ UNCHANGED exHtml
        ELSE IF exIn /\ IsClosingFence(line)
        THEN exPc' = "after" /\ UNCHANGED <<exIn, exHtml>>
        ELSE /\ exHtml' = IF exIn THEN Append(exHtml, line) ELSE exHtml
             /\ exPc' = "loop"
             /\ UNCHANGED exIn
  /\ exPos' = exPos + 1
  /\ UNCHANGED <<exInput, exOut, exBefore>>
  /\ UNCHANGED othersOfEx

\* line 7: the lines are used up
ExEndOfInput ==
  /\ exPc = "loop"
  /\ exPos = Len(exInput)
  /\ exPc' = "after"
  /\ UNCHANGED <<exInput, exPos, exIn, exHtml, exOut, exBefore>>
  /\ UNCHANGED othersOfEx

\* lines 16-19: the block is written over the output file
ExWrite ==
  /\ exPc = "after"
  /\ exHtml # <<>>
  /\ exOut' = [exists |-> TRUE, lines |-> exHtml]
  /\ exPc' = "done"
  /\ UNCHANGED <<exInput, exPos, exIn, exHtml, exBefore>>
  /\ UNCHANGED othersOfEx

\* lines 20-21: "No HTML code block found."
ExNoBlock ==
  /\ exPc = "after"
  /\ exHtml = <<>>
  /\ exPc' = "done"
  /\ UNCHANGED <<exInput, exPos, exIn, exHtml, exOut, exBefore>>
  /\ UNCHANGED othersOfEx

ExNext == ExLine \/ ExEndOfInput \/ ExWrite \/ ExNoBlock

SpecExtract == ExInit /\ [][ExNext]_vars

\* line i starts, once trimmed, with the given pieces
StartsTrimmed(lines, i, what) ==
  LET l == LStripPieces(lines[i])
  IN Len(l) >= Len(what) /\ SubSeq(l, 1, Len(what)) = what

\* the index of the first opening fence, 0 when there is none
FirstOpening(lines) ==
  LET opens == {i \in 1..Len(lines) : StartsTrimmed(lines, i, <<Fence, "html">>)}
  IN IF opens = {} THEN 0 ELSE CHOOSE i \in opens : \A j \in opens : i <= j

\* the index of the first fence after line i, one past the end when none
FirstFenceAfter(lines, i) ==
  LET closes == {j \in (i + 1)..Len(lines) : StartsTrimmed(lines, j, <<Fence>>)}
  IN IF closes = {} THEN Len(lines) + 1
     ELSE CHOOSE j \in closes : \A k \in closes : j <= k

\* the lines strictly between the two fences
LinesBetweenFences(lines) ==
  IF FirstOpening(lines) = 0 THEN <<>>
  ELSE SubSeq(lines, FirstOpening(lines) + 1,
              FirstFenceAfter(lines, FirstOpening(lines)) - 1)

\* C30: extract_html_block writes exactly the lines strictly between the first
\* line that starts, trimmed, with the html fence and the first later line that
\* starts with a fence (or the end of the input), in order and without the fence
\* lines; when there is no block or the block holds no line the output file
\* is neither created nor modified.
C30_ExtractsFirstBlock ==
  exPc = "done" =>
    IF LinesBetweenFences(exInput) # <<>>
    THEN exOut = [exists |-> TRUE, lines |-> LinesBetweenFences(exInput)]
    ELSE exOut = exBefore

\* A block closed by an indented fence was written over an older output file,
\* with lines left after the closing fence.
C30_Witness ==
  /\ exPc = "done"
  /\ exBefore = OldHtmlFile
  /\ exOut.lines # <<>>
  /\ exOut # exBefore
  /\ FirstOpening(exInput) > 0
  /\ FirstFenceAfter(exInput, FirstOpening(exInput)) < Len(exInput)
  /\ exInput[FirstFenceAfter(exInput, FirstOpening(exInput))] = <<" ", Fence>>

(***************************************************************************)
(* Reruns: stages 1 and 2 for one task, run several times while the        *)
(* generative service and the target server answer the same every time.    *)
(***************************************************************************)
MaxRuns == 2

\* open(path, "w") followed by the writes: the old content is gone
OverwriteWith_Append(old, chunks) == old \o chunks

OverwriteWith(old, chunks) == chunks

\* the text read back from a file
RECURSIVE FileText(_)
FileText(chunks) ==
  IF chunks = <<>> THEN <<>> ELSE Head(chunks) \o FileText(Tail(chunks))

ServiceError == <<"ServiceError">>
OldCommand == <<"o">>
OldResponse == [kind |-> "old", body |-> "-"]

\* response.json after execute_curl_for_task (lines 13-63)
RespAfterExecute ==
  IF ~rrCmd.exists THEN rrResp
  ELSE LET cmd == NormalizeCommand(FileText(rrCmd.chunks)) IN
       IF IsEmptyCommand(cmd) \/ cmd \notin rrParsable \/ rrServer = NoResponse
       THEN rrResp
       ELSE IF ~Truthy(rrServer) THEN rrResp
       ELSE IF Unencodable(rrServer)
       THEN [exists |-> TRUE, chunks |-> OverwriteWith(rrResp.chunks, <<>>)]
       ELSE [exists |-> TRUE,
             chunks |-> OverwriteWith(rrResp.chunks, <<PersistedFile(rrServer)>>)]

RrInit ==
  /\ rrPc = "generate"
  /\ rrRun = 0
  /\ rrCmd \in {NoFile, [exists |-> TRUE, chunks |-> <<OldCommand>>]}
  /\ rrResp \in {NoFile, [exists |-> TRUE, chunks |-> <<OldResponse>>]}
  /\ rrService \in CmdTexts \cup {ServiceError}
  /\ rrParsable \in SUBSET {OldCommand, NormalizeCommand(CurlText)}
  /\ rrServer \in Responses \cup {NoResponse}
  /\ rrFirst = [cmd |-> NoFile, resp |-> NoFile]
  /\ MainIdle
  /\ RtIdle
  /\ SubIdle
  /\ GenIdle
  /\ NzIdle
  /\ ExIdle
  /\ EqIdle
  /\ CcIdle

\* pipeline.py lines 20-25, agent_curl_generator.py lines 64-79
RrGenerate ==
  /\ rrPc = "generate"
  /\ IF rrService = ServiceError
     THEN rrPc' = "end" /\ UNCHANGED rrCmd
     ELSE /\ rrCmd' = [exists |-> TRUE,
                       chunks |-> OverwriteWith(rrCmd.chunks, <<rrService>>)]
          /\ rrPc' = "execute"
  /\ UNCHANGED <<rrRun, rrResp, rrService, rrParsable, rrServer, rrFirst>>
  /\ UNCHANGED othersOfRr

\* pipeline.py lines 29-38, agent_execute_curl.py lines 7-63
RrExecute ==
  /\ rrPc = "execute"
  /\ rrResp' = RespAfterExecute
  /\ rrPc' = "end"
  /\ UNCHANGED <<rrRun, rrCmd, rrService, rrParsable, rrServer, rrFirst>>
  /\ UNCHANGED othersOfRr

\* the run is over; the task is run again
RrEndRun ==
  /\ rrPc = "end"
  /\ rrRun' = rrRun + 1
  /\ rrFirst' = IF rrRun = 0 THEN [cmd |-> rrCmd, resp |-> rrResp] ELSE rrFirst
  /\ rrPc' = IF rrRun + 1 < MaxRuns THEN "generate" ELSE "done"
  /\ UNCHANGED <<rrCmd, rrResp, rrService, rrParsable, rrServer>>
  /\ UNCHANGED othersOfRr

RrNext == RrGenerate \/ RrExecute \/ RrEndRun

SpecRerun == RrInit /\ [][RrNext]_vars

\* C23: reruns are idempotent: with the same answers of the generative
\* service and of the target server, after a second run of the generator and
\* the executor curl_command_generated.txt and response.json hold exactly
\* what the first run left, since every write replaces the whole file.
C23_RerunLeavesSameFiles ==
  (rrRun >= 1 /\ rrPc \in {"generate", "done"}) =>
    /\ rrCmd = rrFirst.cmd
    /\ rrResp = rrFirst.resp

\* A second run wrote both files again over the files of the first run.
C23_Witness ==
  /\ rrPc = "done"
  /\ rrRun >= 2
  /\ rrCmd = [exists |-> TRUE, chunks |-> <<CurlText>>]
  /\ rrServer \in Responses
  /\ rrResp = [exists |-> TRUE, chunks |-> <<PersistedFile(rrServer)>>]

(***************************************************************************)
(* The two executors: execute_curl_for_task with its command line          *)
(* (src/agent/agent_execute_curl.py) and the script                        *)
(* src/backend/agent/agent_execute_curl.py, on the same command file and   *)
(* the same server.                                                        *)
(***************************************************************************)
ParseOutcomes == {"ok", "error", "usage"}

NotRun == [ran |-> FALSE, resp |-> NoRespFile, exit |-> NoExit]

Ran(resp, exit) == [ran |-> TRUE, resp |-> resp, exit |-> exit]

\* lines 72-78 of src/agent/agent_execute_curl.py
ExitOf(success) == IF success THEN ExitOK ELSE ExitFail

\* execute_curl_for_task and sys.exit of its result
TaskExecutorRun ==
  IF ~eqCmd.exists THEN Ran(eqBefore, ExitOf(MissingFileResult))
  ELSE IF IsEmptyCommand(NormalizeCommand(eqCmd.text))
  THEN Ran(eqBefore, ExitOf(EmptyCommandResult))
  ELSE IF eqParse = "usage" THEN Ran(eqBefore, ExitUsage)
  ELSE IF eqParse = "error" THEN Ran(eqBefore, ExitOf(ParseFailureResult))
  ELSE IF eqServer = NoResponse THEN Ran(eqBefore, ExitOf(HttpFailureResult))
  ELSE IF ~Truthy(eqServer) THEN Ran(eqBefore, ExitOf(FALSE))
  ELSE IF Unencodable(eqServer) THEN Ran(TruncatedFile, ExitOf(WriteFailureResult))
  ELSE Ran(PersistedFile(eqServer), ExitOf(TRUE))

\* the script: sys.exit(1) on the failures up to the request, and no exit
\* code set after it.  The print of line 42 raises for a text stdout cannot
\* encode; where stdout takes it, the write of line 44 raises after the
\* file was opened.
ScriptRuns ==
  IF ~eqCmd.exists THEN {Ran(eqBefore, ExitFail)}
  ELSE IF IsEmptyCommand(NormalizeCommand(eqCmd.text))
  THEN {Ran(eqBefore, ExitFail)}
  ELSE IF eqParse = "usage" THEN {Ran(eqBefore, ExitUsage)}
  ELSE IF eqParse = "error" THEN {Ran(eqBefore, ExitFail)}
  ELSE IF eqServer = NoResponse THEN {Ran(eqBefore, ExitFail)}
  ELSE IF ~Truthy(eqServer) THEN {Ran(eqBefore, ExitOK)}
  ELSE IF ~eqServer.isJson THEN {Ran(eqBefore, ExitOK)}
  ELSE IF Unencodable(eqServer)
  THEN {Ran(eqBefore, ExitFail), Ran(TruncatedFile, ExitFail)}
  ELSE {Ran(PrettyJsonFile(eqServer), ExitOK)}

EqInit ==
  /\ eqCmd \in {NoCmdFile} \cup {CmdFileOf(t) : t \in CmdTexts}
  /\ eqParse \in ParseOutcomes
  /\ eqServer \in Responses \cup {NoResponse}
  /\ eqBefore \in {NoRespFile, OldRespFile}
  /\ eqTask = NotRun
  /\ eqScript = NotRun
  /\ MainIdle
  /\ RtIdle
  /\ SubIdle
  /\ GenIdle
  /\ NzIdle
  /\ ExIdle
  /\ RrIdle
  /\ CcIdle

\* python agent_execute_curl.py <task_name>
EqRunTaskExecutor ==
  /\ ~eqTask.ran
  /\ eqTask' = TaskExecutorRun
  /\ UNCHANGED <<eqCmd, eqParse, eqServer, eqBefore, eqScript>>
  /\ UNCHANGED othersOfEq

\* python agent_execute_curl.py in the directory of the command file
EqRunScript ==
  /\ ~eqScript.ran
  /\ eqScript' \in ScriptRuns
  /\ UNCHANGED <<eqCmd, eqParse, eqServer, eqBefore, eqTask>>
  /\ UNCHANGED othersOfEq

EqNext == EqRunTaskExecutor \/ EqRunScript

SpecExecutors == EqInit /\ [][EqNext]_vars

\* C29: for the same command file and the same server response the two
\* executors leave the same response.json and report the same success or
\* failure through the process exit code.
C29_ExecutorsEquivalent ==
  (eqTask.ran /\ eqScript.ran) =>
    /\ eqTask.resp = eqScript.resp
    /\ (eqTask.exit = ExitOK) <=> (eqScript.exit = ExitOK)

\* The two executors agree on every run that stops before the request and on
\* every encodable JSON response with a status below 400.
ExecutorsAgreeOnJson ==
  (/\ eqTask.ran
   /\ eqScript.ran
   /\ \/ ~eqCmd.exists
      \/ IsEmptyCommand(NormalizeCommand(eqCmd.text))
      \/ eqParse # "ok"
      \/ eqServer = NoResponse
      \/ (eqServer.ok /\ eqServer.isJson /\ ~Unencodable(eqServer))) =>
    /\ eqTask = eqScript

(***************************************************************************)
(* Two pipeline processes at the same time, one for each of two tasks.     *)
(* A file is <<directory, name>>; a task's directory is the task itself.   *)
(***************************************************************************)
CcRuns == {1, 2}

\* the directory tools/ of the fixture files
ToolsDir == -3

Fixtures ==
  {<<ToolsDir, "base64_image.txt">>, <<ToolsDir, "audio_data.txt">>,
   <<ToolsDir, "sampling_rate.txt">>}

CmdName == "curl_command_generated.txt"
RespName == "response.json"

\* what may lie on the disk when the two runs start
EarlierFiles ==
  { {},
    {<<Elsewhere, CmdName>>, <<Elsewhere, RespName>>},
    {<<1, CmdName>>, <<1, RespName>>, <<2, CmdName>>, <<2, RespName>>} }

CcInit ==
  /\ ccPc = [r \in CcRuns |-> "stage1"]
  /\ ccCwd \in [CcRuns -> CcRuns \cup {Elsewhere}]
  /\ ccHas \in EarlierFiles
  /\ ccReads = [r \in CcRuns |-> {}]
  /\ ccWrites = [r \in CcRuns |-> {}]
  /\ MainIdle
  /\ RtIdle
  /\ SubIdle
  /\ GenIdle
  /\ NzIdle
  /\ ExIdle
  /\ RrIdle
  /\ EqIdle

\* the relative names stage 3 opens: the second only when the first opened
CwdFilesRead(r) ==
  IF <<ccCwd[r], CmdName>> \notin ccHas THEN {}
  ELSE IF <<ccCwd[r], RespName>> \notin ccHas THEN {<<ccCwd[r], CmdName>>}
  ELSE {<<ccCwd[r], CmdName>>, <<ccCwd[r], RespName>>}

\* stage 1: generate_curl_for_task(task_name), which may raise at the service
CcStage1(r) ==
  /\ ccPc[r] = "stage1"
  /\ ccReads' = [ccReads EXCEPT ![r] = @ \cup Fixtures \cup {<<r, "task.yaml">>}]
  /\ \/ /\ ccPc' = [ccPc EXCEPT ![r] = "done"]
        /\ UNCHANGED <<ccWrites, ccHas>>
     \/ /\ ccWrites' = [ccWrites EXCEPT ![r] = @ \cup {<<r, CmdName>>}]
        /\ ccHas' = ccHas \cup {<<r, CmdName>>}
        /\ ccPc' = [ccPc EXCEPT ![r] = "stage2"]
  /\ UNCHANGED ccCwd
  /\ UNCHANGED othersOfCc

\* stage 2: execute_curl_for_task(task_name), which may return False
CcStage2(r) ==
  /\ ccPc[r] = "stage2"
  /\ ccReads' = [ccReads EXCEPT ![r] = @ \cup {<<r, CmdName>>}]
  /\ \/ /\ ccPc' = [ccPc EXCEPT ![r] = "done"]
        /\ UNCHANGED <<ccWrites, ccHas>>
     \/ /\ ccWrites' = [ccWrites EXCEPT ![r] = @ \cup {<<r, RespName>>}]
        /\ ccHas' = ccHas \cup {<<r, RespName>>}
        /\ ccPc' = [ccPc EXCEPT ![r] = "stage3"]
  /\ UNCHANGED ccCwd
  /\ UNCHANGED othersOfCc

\* stage 3: generate(task_dir) and save(ui_html, task_dir, task_name)
CcStage3(r) ==
  /\ ccPc[r] = "stage3"
  /\ ccReads' = [ccReads EXCEPT ![r] = @ \cup {<<r, "task.yaml">>} \cup CwdFilesRead(r)]
  /\ \/ UNCHANGED <<ccWrites, ccHas>>
     \/ /\ ccWrites' = [ccWrites EXCEPT ![r] = @ \cup {<<r, "ui.html">>}]
        /\ ccHas' = ccHas \cup {<<r, "ui.html">>}
  /\ ccPc' = [ccPc EXCEPT ![r] = "done"]
  /\ UNCHANGED ccCwd
  /\ UNCHANGED othersOfCc

CcNext == \E r \in CcRuns : CcStage1(r) \/ CcStage2(r) \/ CcStage3(r)

SpecConcurrent == CcInit /\ [][CcNext]_vars

Accessed(r) == ccReads[r] \cup ccWrites[r]

\* C22: two pipeline runs for different tasks never write the same file:
\* every file a run writes lies in its task's own directory, and the only
\* files both runs access are the fixture files, which are only read.
C22_RunsShareOnlyFixtures ==
  /\ \A r \in CcRuns : \A f \in ccWrites[r] : f[1] = r
  /\ \A f \in Accessed(1) \cap Accessed(2) :
       f \in Fixtures /\ f \notin ccWrites[1] \cup ccWrites[2]

\* Every file a run writes lies in its own task's directory, and no file is
\* written by both runs.
WritesStayInOwnDir ==
  /\ \A r \in CcRuns : \A f \in ccWrites[r] : f[1] = r
  /\ ccWrites[1] \cap ccWrites[2] = {}

====
